---- MODULE Spec2Model ----
(***************************************************************************)
(* A model of the Raft node of the OMNIX runtime (runtime/src/raft.rs).    *)
(*                                                                         *)
(* Every RaftNode owns its fields behind one RwLock per field.  Three      *)
(* tasks run on a node: the election timer, the message handler and the    *)
(* caller of propose.  No code path of raft.rs sends a message (the sends  *)
(* in start_election, send_heartbeats and the two handlers are TODOs), so  *)
(* the messages a node handles are the ones its inbound channel            *)
(* (message_tx) is given: here every well-formed message a correct Raft    *)
(* cluster could put on the wire, in any order and any number of times.    *)
(***************************************************************************)
EXTENDS Integers, Sequences, FiniteSets, TLC

\* ------------------------------------------------------------------ bounds
MaxTerm == 2
MaxLog == 2
ClusterSteps == 4

\* The election timeout, in the unit last_heartbeat is measured in.
ElectionTimeout == 1

Node == {"n1", "n2"}
None == "None"
\* The payloads callers propose (the payloads of leader_log are
\* 1..LeaderLogLen).
ClientValues == {0}

Min(a, b) == IF a < b THEN a ELSE b

VARIABLES
    state,            \* NodeState of each node
    current_term,
    voted_for,        \* Option<NodeId>
    log,              \* Vec<LogEntry>
    commit_index,
    last_applied,
    next_index,       \* HashMap<NodeId, u64>: a function on the inserted keys
    match_index,
    peers,            \* Vec<NodeId>, pushed to by add_peer
    last_heartbeat,   \* time elapsed since the stored Instant, saturating
    propose_result,   \* what the last propose call on the node returned
    leaders,          \* history: the <<term, node>> pairs seen in role Leader
    steps,            \* the steps taken so far, counted by SpecCluster only
    \* The tasks of a node, one lock acquisition at a time (SpecConc):
    epc,              \* where the election timer task stands
    e_elapsed,        \* its copy of last_heartbeat (election_timer_loop)
    log_held,         \* start_election holds its read guard on the log
    hpc,              \* where the message handler task stands
    hmsg,             \* the message it is handling
    h_ok,             \* its last test: term >= current_term, vote_granted,
                      \* log_consistent
    ppc,              \* where the caller of propose stands
    p_value,          \* the value it proposes
    p_term,           \* append_log_entry's copy of current_term
    \* The engine of consensus.rs:
    raft_state,       \* RaftState of the RaftConsensus engine of each Runtime
    rc_result,        \* what the last propose call on each engine returned
    \* History:
    issued,           \* the ProposalIds propose has returned on each node
    ae_refused,       \* history: the last AppendEntries the node handled failed
                      \* check_log_consistency
    votes_cast,       \* the candidates each node wrote to voted_for since its
                      \* current_term last changed
    \* The replicated objects of crdt.rs, one per replica:
    gcounter,         \* GCounter
    g_incs,           \* history: the increments performed on each GCounter
    pncounter,        \* PNCounter
    lwwmap,           \* LWWMap<V>
    lww_now,          \* SystemTime::now(), in milliseconds
    orset,            \* ORSet<T>
    or_scn,           \* history: the calls on r1 and r2 since r1 last began by adding "x"
    crdt_ops,         \* the operations performed so far on the replicas
    vclock,           \* VectorClock
    vc_knows,         \* history: the replicas whose state has reached each clock
    vc_ops,           \* the operations performed so far on the clocks
    \* The stores of state.rs:
    dstate,           \* DistributedState of each store
    ds_result,        \* what the last set call on each store returned
    ds_ops,           \* the set calls made so far
    \* The Runtime of lib.rs:
    rt_algorithm,     \* config.consensus.algorithm
    rt_engine,        \* PBFTState or TendermintState of its engine
    rt_swarm,         \* P2PNetwork::swarm: Option<Swarm>
    rt_calls,         \* history: the start calls made on the layers, with their results
    rt_result,        \* what the last call on the Runtime returned
    rt_issued,        \* history: the ProposalIds propose has returned
    sm_store,         \* StateManager::store
    rt_ops,           \* the calls made so far on the Runtime
    \* The network layer of network_impl.rs:
    net_cmds,         \* the NetworkCommands queued on message_tx
    net_flight,       \* the gossipsub messages published and not yet received
    net_incoming,     \* the Messages queued on incoming_tx
    net_pubs,         \* history: the commands published on the topic
    net_log,          \* history: what each receiver did with each publication
    net_ops,          \* the calls made so far on the layers
    \* The network layer of network.rs:
    p2p_len,          \* the NetworkCommands held by the channel of tx and rx
    p2p_pc            \* the send each caller is in, if any

vars == <<state, current_term, voted_for, log, commit_index, last_applied,
          next_index, match_index, peers, last_heartbeat, propose_result,
          leaders, steps, epc, e_elapsed, log_held, hpc, hmsg, h_ok, ppc, p_value, p_term,
          raft_state, rc_result, issued, votes_cast, ae_refused,
          gcounter, g_incs, pncounter, lwwmap, lww_now, orset, or_scn, crdt_ops,
          vclock, vc_knows, vc_ops, dstate, ds_result, ds_ops,
          rt_algorithm, rt_engine, rt_swarm, rt_calls, rt_result, rt_issued,
          sm_store, rt_ops,
          net_cmds, net_flight, net_incoming, net_pubs, net_log, net_ops,
          p2p_len, p2p_pc>>

\* The locals of the tasks, which the whole-handler actions leave alone.
taskvars == <<epc, e_elapsed, log_held, hpc, hmsg, h_ok, ppc, p_value, p_term>>

\* The objects of crdt.rs, which no action of a node or an engine touches.
orvars == <<orset, or_scn>>

objvars == <<gcounter, g_incs, pncounter, lwwmap, lww_now, orvars, crdt_ops>>

vcvars == <<vclock, vc_knows, vc_ops>>

\* The stores of state.rs.
storevars == <<dstate, ds_result, ds_ops>>

\* What stands beside the nodes, the engines and the objects above.
\* The Runtime of lib.rs with its network layer and its state manager.
rtvars == <<rt_algorithm, rt_engine, rt_swarm, rt_calls, rt_result, rt_issued,
            sm_store, rt_ops>>

\* The P2PNetworkLayer of network_impl.rs.
netvars == <<net_cmds, net_flight, net_incoming, net_pubs, net_log, net_ops>>

\* The P2PNetwork of network.rs.
p2pvars == <<p2p_len, p2p_pc>>

extvars == <<vcvars, storevars, rtvars, netvars, p2pvars>>

crdtvars == <<objvars, extvars>>

\* The Runtimes of the three-node cluster, each with its own engine.
Engine == {"node1", "node2", "node3"}

\* The engines of consensus.rs, which no action of a RaftNode touches.
enginevars == <<raft_state, rc_result>>

\* The nodes and the engines.
raftvars == <<state, current_term, voted_for, log, commit_index,
              last_applied, next_index, match_index, peers, last_heartbeat,
              propose_result, leaders, steps, taskvars, enginevars, issued,
              votes_cast, ae_refused>>

\* What the operations on the objects of crdt.rs leave alone.
noncrdtvars == <<raftvars, extvars>>

\* What the operations on the clocks and on the stores leave alone.
notvc == <<raftvars, objvars, storevars, rtvars, netvars, p2pvars>>
notstore == <<raftvars, objvars, vcvars, rtvars, netvars, p2pvars>>

\* ------------------------------------------------------- pure functions

LogEntry(t, i, v) == [term |-> t, index |-> i, value |-> v]

\* log.last().map(|e| e.term).unwrap_or(0)
LastTerm(lg) == IF Len(lg) = 0 THEN 0 ELSE lg[Len(lg)].term

is_log_up_to_date_longer(lg, last_log_index, last_log_term) ==
    \/ last_log_term > LastTerm(lg)
    \/ (last_log_term = LastTerm(lg) /\ last_log_index > Len(lg))

is_log_up_to_date(lg, last_log_index, last_log_term) ==
    \/ last_log_term > LastTerm(lg)
    \/ (last_log_term = LastTerm(lg) /\ last_log_index >= Len(lg))

\* check_log_consistency without the comparison of terms.
check_log_consistency_any_term(lg, prev_log_index, prev_log_term) ==
    IF prev_log_index = 0 THEN TRUE
    ELSE prev_log_index <= Len(lg)

check_log_consistency(lg, prev_log_index, prev_log_term) ==
    IF prev_log_index = 0 THEN TRUE
    ELSE IF prev_log_index > Len(lg) THEN FALSE
    ELSE lg[prev_log_index].term = prev_log_term

\* Vec::truncate(n): keep the first n elements; a no-op when n >= len.
Truncate(lg, n) == IF n >= Len(lg) THEN lg ELSE SubSeq(lg, 1, n)

\* The log write of handle_append_entries: start_index = prev_log_index + 1;
\* if log.len() > start_index { log.truncate(start_index) }; log.extend(entries)
AppendEntriesLog(lg, prev_log_index, entries) ==
    LET start_index == prev_log_index + 1
        kept == IF Len(lg) > start_index THEN Truncate(lg, start_index) ELSE lg
    IN  kept \o entries

\* The commit update of handle_append_entries, given the log after the write.
AppendEntriesCommit(commit, leader_commit, log_len) ==
    IF leader_commit > commit THEN Min(leader_commit, log_len) ELSE commit

\* term >= current_term, of handle_request_vote and handle_append_entries
TermOk(term, cur) == term >= cur

\* voted_for.is_none() || voted_for.as_ref() == Some(&candidate_id)
VoteFree(voted, candidate_id) == voted = None \/ voted = candidate_id

\* vote_granted of handle_request_vote
VoteGranted(term, cur, voted, candidate_id, lg, last_log_index, last_log_term) ==
    /\ TermOk(term, cur)
    /\ VoteFree(voted, candidate_id)
    /\ is_log_up_to_date(lg, last_log_index, last_log_term)

\* let majority = (peers.len() + 1) / 2 + 1
Majority(ps) == (Cardinality(ps) + 1) \div 2 + 1

\* The vote count start_election compares with the majority: its own vote.
VoteCount == 1

\* become_leader's inserts into next_index / match_index for the peers
InsertAll(map, ps, v) ==
    [p \in (DOMAIN map) \cup ps |-> IF p \in ps THEN v ELSE map[p]]

MayProposeUnlessFollower(st) == st # "Follower"

\* The role check of propose
MayPropose(st) == st = "Leader"

\* Ok(ProposalId(format!("{}:{}", node_id, index)))
ProposalId(n, index) == [kind |-> "Ok", id |-> <<n, index>>]
\* Err(anyhow!("Not the leader"))
NotLeader == [kind |-> "NotLeader", id |-> <<>>]
\* No propose call has returned yet.
NoResult == [kind |-> "None", id |-> <<>>]

\* ------------------------------------------------------------- messages

\* The log the cluster's rightful leaders have written, which every message
\* on the wire is cut from: entry i sits at index i and carries a payload of
\* its own; the last entry was written in term 2, the others in term 1.  It
\* is one entry longer than the logs the model lets a node keep.
LeaderLogLen == MaxLog + 1

leader_log ==
    [i \in 1..LeaderLogLen |-> LogEntry(IF i < LeaderLogLen THEN 1 ELSE 2, i, i)]

\* The entries of leader_log a leader of term t holds: those of terms <= t.
LeaderLen(t) == Cardinality({i \in 1..LeaderLogLen : leader_log[i].term <= t})

\* RequestVote of a candidate of term t whose log is a prefix of the log the
\* leader of term t - 1 wrote.
RequestVoteMsgs ==
    { m \in
        { [type |-> "RequestVote", term |-> t, candidate_id |-> c,
           last_log_index |-> i,
           last_log_term |-> IF i = 0 THEN 0 ELSE leader_log[i].term] :
            t \in 1..MaxTerm, c \in Node, i \in 0..LeaderLogLen } :
        m.last_log_index <= LeaderLen(m.term - 1) }

\* AppendEntries of a leader of term t: the entries p+1..q of its log, sent
\* after its entry p, with any commit index of its log.  p = q is a heartbeat.
AppendEntriesMsgs ==
    { m \in
        { [type |-> "AppendEntries", term |-> t, prev_log_index |-> p,
           prev_log_term |-> IF p = 0 THEN 0 ELSE leader_log[p].term,
           entries |-> SubSeq(leader_log, p + 1, q), leader_commit |-> c] :
            t \in 1..MaxTerm, p \in 0..LeaderLogLen, q \in 0..LeaderLogLen,
            c \in 0..LeaderLogLen } :
        /\ m.prev_log_index + Len(m.entries) <= LeaderLen(m.term)
        /\ m.leader_commit <= LeaderLen(m.term) }

\* RequestVoteResponse, AppendEntriesResponse and Heartbeat carry a term and
\* fall into the `_ => {}` arm of handle_message.
OtherMsgs == { [type |-> "Other", term |-> t] : t \in 0..MaxTerm }

\* The handler is waiting on rx.recv().
NoMsg == [type |-> "None", term |-> 0]

AllMessages == RequestVoteMsgs \cup AppendEntriesMsgs \cup OtherMsgs

\* The messages node n can be handed: no node asks itself for its vote.
Messages(n) ==
    { m \in AllMessages : m.type = "RequestVote" => m.candidate_id # n }

\* The messages raft.rs builds itself: the RequestVote of start_election and
\* the AppendEntries of send_heartbeats (prev_log_index 0, no entries); and
\* the other types.  leader_commit is the sender's commit_index, which
\* among nodes that receive nothing but these heartbeats stays 0.
ConcMessages(n) ==
    { m \in Messages(n) :
        m.type = "AppendEntries" =>
            /\ m.prev_log_index = 0 /\ m.entries = <<>>
            /\ m.leader_commit = 0 }

\* ------------------------------------------- the objects of crdt.rs

\* The replicas, each holding one object of every type.
Replica == {"r1", "r2", "r3"}

\* The node ids the objects are built with.
CrdtNodeId == {"node1", "node2", "node3"}

\* Every replica under a node id of its own.
DistinctIds == [r \in Replica |->
                  CASE r = "r1" -> "node1" [] r = "r2" -> "node2" [] OTHER -> "node3"]

\* The ways the callers name the replicas: new(node_id) takes any string, so
\* two replicas can be built with one id.  Up to renaming, r3 has an id of
\* its own or shares the id of another replica.
IdAssignments ==
    { f \in [Replica -> CrdtNodeId] : f["r1"] = "node1" /\ f["r2"] = "node2" }

Max(a, b) == IF a > b THEN a ELSE b

\* A HashMap is a function on the keys it holds.
EmptyMap == <<>>

\* entry(k).or_insert(0), read
GetOrZero(m, k) == IF k \in DOMAIN m THEN m[k] ELSE 0

\* insert(k, v)
Insert(m, k, v) == [j \in DOMAIN m \cup {k} |-> IF j = k THEN v ELSE m[j]]

\* values().sum()
RECURSIVE SumValues(_)
SumValues(m) ==
    IF DOMAIN m = {} THEN 0
    ELSE LET k == CHOOSE j \in DOMAIN m : TRUE
         IN  m[k] + SumValues([j \in DOMAIN m \ {k} |-> m[j]])

\* GCounter::new
GCounter_new(node_id) == [counts |-> EmptyMap, node_id |-> node_id]

\* GCounter::increment
GCounter_increment(self) ==
    [self EXCEPT !.counts = Insert(@, self.node_id, GetOrZero(@, self.node_id) + 1)]

GCounter_value_keys(self) == Cardinality(DOMAIN self.counts)

\* GCounter::value
GCounter_value(self) == SumValues(self.counts)

GCounter_merge_sum(self, other) ==
    [self EXCEPT !.counts =
        [k \in DOMAIN self.counts \cup DOMAIN other.counts |->
            IF k \in DOMAIN other.counts
            THEN GetOrZero(self.counts, k) + other.counts[k]
            ELSE self.counts[k]]]

\* GCounter::merge: every count of other is folded into self by max.
GCounter_merge(self, other) ==
    [self EXCEPT !.counts =
        [k \in DOMAIN self.counts \cup DOMAIN other.counts |->
            IF k \in DOMAIN other.counts
            THEN Max(GetOrZero(self.counts, k), other.counts[k])
            ELSE self.counts[k]]]

\* PNCounter::new
PNCounter_new(node_id) ==
    [positive |-> GCounter_new(node_id), negative |-> GCounter_new(node_id)]

\* PNCounter::increment
PNCounter_increment(self) ==
    [self EXCEPT !.positive = GCounter_increment(@)]

\* PNCounter::decrement
PNCounter_decrement(self) ==
    [self EXCEPT !.negative = GCounter_increment(@)]

\* PNCounter::value
PNCounter_value(self) ==
    GCounter_value(self.positive) - GCounter_value(self.negative)

\* PNCounter::merge
PNCounter_merge(self, other) ==
    [positive |-> GCounter_merge(self.positive, other.positive),
     negative |-> GCounter_merge(self.negative, other.negative)]

\* node_id.bytes(), for the ids of CrdtNodeId
Bytes(node_id) ==
    <<110, 111, 100, 101>> \o
    << CASE node_id = "node1" -> 49 [] node_id = "node2" -> 50 [] OTHER -> 51 >>

\* bytes.fold(0, |acc, b| acc.wrapping_mul(31).wrapping_add(b)); the ids of
\* CrdtNodeId are five bytes long and their hashes stay far below 2^64, so
\* nothing wraps.
RECURSIVE Fold31(_, _)
Fold31(acc, bytes) ==
    IF bytes = <<>> THEN acc ELSE Fold31(acc * 31 + Head(bytes), Tail(bytes))

\* LWWMap::hash_node_id
hash_node_id(node_id) == Fold31(0, Bytes(node_id))

\* struct Timestamp
Timestamp(time, node_id) == [time |-> time, node_id_hash |-> hash_node_id(node_id)]

\* The derived Ord of Timestamp: by time, then by node_id_hash.
TimestampGe(a, b) ==
    \/ a.time > b.time
    \/ a.time = b.time /\ a.node_id_hash >= b.node_id_hash

\* LWWMap::new
LWWMap_new(node_id) == [entries |-> EmptyMap, node_id |-> node_id]

\* LWWMap::set at the system time now
LWWMap_set(self, key, value, now) ==
    [self EXCEPT !.entries =
        Insert(@, key, [value |-> value, ts |-> Timestamp(now, self.node_id)])]

\* LWWMap::get: Option<&V>
LWWMap_get(self, key) ==
    IF key \in DOMAIN self.entries THEN self.entries[key].value ELSE None

\* LWWMap::merge: an entry of other replaces the entry of self unless self
\* holds the key with a timestamp >= the other's.
LWWMap_merge(self, other) ==
    [self EXCEPT !.entries =
        [k \in DOMAIN self.entries \cup DOMAIN other.entries |->
            IF k \notin DOMAIN other.entries THEN self.entries[k]
            ELSE IF /\ k \in DOMAIN self.entries
                    /\ TimestampGe(self.entries[k].ts, other.entries[k].ts)
                 THEN self.entries[k]
                 ELSE other.entries[k]]]

\* struct UniqueTag
UniqueTag(node_id, counter) == [node_id |-> node_id, counter |-> counter]

\* ORSet::new
ORSet_new(node_id) == [elements |-> EmptyMap, node_id |-> node_id, counter |-> 0]

\* The tags self.elements holds for element, none when it has no entry.
TagsOf(self, element) ==
    IF element \in DOMAIN self.elements THEN self.elements[element] ELSE {}

\* ORSet::add
ORSet_add(self, element) ==
    [self EXCEPT
        !.counter = @ + 1,
        !.elements = Insert(@, element,
            TagsOf(self, element) \cup {UniqueTag(self.node_id, self.counter)})]

\* ORSet::remove
ORSet_remove(self, element) ==
    [self EXCEPT !.elements = [e \in DOMAIN @ \ {element} |-> @[e]]]

\* ORSet::contains
ORSet_contains(self, element) == element \in DOMAIN self.elements

ORSet_merge_known(self, other) ==
    [self EXCEPT !.elements =
        [e \in DOMAIN self.elements |-> self.elements[e] \cup TagsOf(other, e)]]

ORSet_merge_replace(self, other) ==
    [self EXCEPT !.elements =
        [e \in DOMAIN self.elements \cup DOMAIN other.elements |->
            IF e \in DOMAIN other.elements THEN other.elements[e]
            ELSE self.elements[e]]]

\* ORSet::merge: every entry of other extends the entry of self, which is
\* created empty when self has none.
ORSet_merge(self, other) ==
    [self EXCEPT !.elements =
        [e \in DOMAIN self.elements \cup DOMAIN other.elements |->
            IF e \in DOMAIN other.elements
            THEN TagsOf(self, e) \cup other.elements[e]
            ELSE self.elements[e]]]

\* A Vec listing the members of the set s, in an order of the map's choosing.
RECURSIVE Collect(_)
Collect(s) ==
    IF s = {} THEN <<>>
    ELSE LET e == CHOOSE e \in s : TRUE IN <<e>> \o Collect(s \ {e})

RECURSIVE CollectTimes(_, _)
CollectTimes(s, m) ==
    IF s = {} THEN <<>>
    ELSE LET e == CHOOSE e \in s : TRUE
         IN  [i \in 1..Cardinality(m[e]) |-> e] \o CollectTimes(s \ {e}, m)

ORSet_elements_per_tag(self) == CollectTimes(DOMAIN self.elements, self.elements)

\* ORSet::elements: the keys of the map, cloned into a Vec
ORSet_elements(self) == Collect(DOMAIN self.elements)

\* VectorClock::new
VectorClock_new(node_id) == [clocks |-> EmptyMap, node_id |-> node_id]

\* VectorClock::increment
VectorClock_increment(self) ==
    [self EXCEPT !.clocks = Insert(@, self.node_id, GetOrZero(@, self.node_id) + 1)]

VectorClock_update_max(self, other) ==
    [self EXCEPT !.clocks =
        [k \in DOMAIN self.clocks \cup DOMAIN other.clocks |->
            IF k \in DOMAIN other.clocks
            THEN Max(GetOrZero(self.clocks, k), other.clocks[k])
            ELSE self.clocks[k]]]

\* VectorClock::update: the pointwise max, then self.increment()
VectorClock_update(self, other) ==
    VectorClock_increment(
        [self EXCEPT !.clocks =
            [k \in DOMAIN self.clocks \cup DOMAIN other.clocks |->
                IF k \in DOMAIN other.clocks
                THEN Max(GetOrZero(self.clocks, k), other.clocks[k])
                ELSE self.clocks[k]]])

\* VectorClock::compare, over the keys of both clocks with unwrap_or(0)
VectorClock_compare(self, other) ==
    LET all_nodes == DOMAIN self.clocks \cup DOMAIN other.clocks
        less == \E node \in all_nodes :
                    GetOrZero(self.clocks, node) < GetOrZero(other.clocks, node)
        greater == \E node \in all_nodes :
                    GetOrZero(self.clocks, node) > GetOrZero(other.clocks, node)
    IN  CASE less /\ ~greater -> "Before"
          [] ~less /\ greater -> "After"
          [] ~less /\ ~greater -> "Equal"
          [] OTHER -> "Concurrent"

\* The replicas as new(node_id) leaves them, under the ids of f.
InitReplicas(f) ==
    /\ gcounter = [r \in Replica |-> GCounter_new(f[r])]
    /\ g_incs = [r \in Replica |-> 0]
    /\ pncounter = [r \in Replica |-> PNCounter_new(f[r])]
    /\ lwwmap = [r \in Replica |-> LWWMap_new(f[r])]
    /\ lww_now = 1
    /\ orset = [r \in Replica |-> ORSet_new(f[r])]
    /\ or_scn = <<>>
    /\ crdt_ops = 0
    /\ vclock = [r \in Replica |-> VectorClock_new(f[r])]
    /\ vc_knows = [r \in Replica |-> {r}]
    /\ vc_ops = 0

\* ------------------------------------------- the stores of state.rs

\* The DistributedStates of a cluster of two replicas.
Store == {"R1", "R2"}

StoreKey == {"A", "B"}
\* StateValue::Integer
StoreValue == {1, 2}

\* The thresholds of Quorum(f32), as fractions <<numerator, denominator>>.
Threshold == {<<1, 2>>, <<1, 1>>}

\* enum ConsistencyLevel
Strong == [kind |-> "Strong", threshold |-> <<0, 1>>]
Eventual == [kind |-> "Eventual", threshold |-> <<0, 1>>]
Causal == [kind |-> "Causal", threshold |-> <<0, 1>>]
Quorum(th) == [kind |-> "Quorum", threshold |-> th]
Level == {Strong, Eventual, Causal} \cup { Quorum(th) : th \in Threshold }

\* DistributedState::new
DistributedState_new(consistency_level) ==
    [local_state |-> EmptyMap, replicas |-> <<>>,
     consistency_level |-> consistency_level]

\* DistributedState::get: Option<StateValue>, Some(v) as <<v>> and None as <<>>
DistributedState_get(self, key) ==
    IF key \in DOMAIN self.local_state THEN <<self.local_state[key]>> ELSE <<>>

\* DistributedState::update_local
update_local(self, key, value) ==
    [self EXCEPT !.local_state = Insert(@, key, value)]

\* (n as f32 * threshold).ceil() as usize
CeilMul(n, th) == (n * th[1] + th[2] - 1) \div th[2]

\* The loop of replicate_quorum: one ack is counted per replica, up to the
\* break at acks >= required_acks.
RECURSIVE QuorumLoop(_, _, _)
QuorumLoop(rest, acks, required_acks) ==
    IF rest = <<>> THEN acks
    ELSE IF acks + 1 >= required_acks THEN acks + 1
    ELSE QuorumLoop(Tail(rest), acks + 1, required_acks)

\* What a set call returns, with the acks it counted.
SetOk(self, acks) == [self |-> self, kind |-> "Ok", acks |-> acks]
SetErr(self, acks) == [self |-> self, kind |-> "Err", acks |-> acks]

\* DistributedState::replicate_strong: nothing is sent, update_local runs.
replicate_strong(self, key, value) == SetOk(update_local(self, key, value), 0)

\* DistributedState::replicate_causal
replicate_causal(self, key, value) == SetOk(self, 0)

\* DistributedState::replicate_quorum
replicate_quorum(self, key, value, threshold) ==
    LET required_acks == CeilMul(Len(self.replicas), threshold)
        acks == QuorumLoop(self.replicas, 0, required_acks)
    IN  IF acks >= required_acks
        THEN SetOk(update_local(self, key, value), acks)
        ELSE SetErr(self, acks)

\* DistributedState::set; replicate_eventual, which set spawns, sends nothing.
DistributedState_set(self, key, value) ==
    CASE self.consistency_level.kind = "Strong" -> replicate_strong(self, key, value)
      [] self.consistency_level.kind = "Eventual" ->
            SetOk(update_local(self, key, value), 0)
      [] self.consistency_level.kind = "Causal" -> replicate_causal(self, key, value)
      [] OTHER -> replicate_quorum(self, key, value, self.consistency_level.threshold)

\* No set call has returned yet.
NoSet == [kind |-> "None", acks |-> 0]

\* The stores as new(consistency_level) leaves them, under the levels of lv.
InitStores(lv) ==
    /\ dstate = [d \in Store |-> DistributedState_new(lv[d])]
    /\ ds_result = [d \in Store |-> NoSet]
    /\ ds_ops = 0

\* ------------------------------------------------ the Runtime of lib.rs

\* enum ConsensusAlgorithm
Algorithm == {"Raft", "PBFT", "Tendermint"}

\* enum Vote
Vote == {"Accept", "Reject", "Abstain"}

\* PBFTConsensus::new, TendermintConsensus::new; the state of a RaftConsensus
\* is raft_state.
Engine_new(algorithm) ==
    CASE algorithm = "PBFT" ->
            [view |-> 0, phase |-> "PrePrepare", proposals |-> EmptyMap]
      [] algorithm = "Tendermint" -> [height |-> 0, round |-> 0, step |-> "Propose"]
      [] OTHER -> [role |-> "see raft_state"]

\* The uuids Uuid::new_v4 may return.
Uuid == {"u1", "u2"}

\* ProposalId(format!("pbft_{}", uuid)) and the like
PrefixedId(prefix, u) == <<prefix, u>>

\* Every ProposalId a caller may hand to vote.
AnyProposalId == { PrefixedId(p, u) : p \in {"raft", "pbft", "tendermint"}, u \in Uuid }

\* What a call on the Runtime returns.
RtOk(op, id) == [op |-> op, kind |-> "Ok", id |-> id]
RtErr(op, id, kind) == [op |-> op, kind |-> kind, id |-> id]
RtNone == [op |-> "none", kind |-> "None", id |-> <<>>]

\* PBFTConsensus::propose with the uuid u
PBFT_propose(self, value, u) ==
    [self EXCEPT !.proposals =
        Insert(@, PrefixedId("pbft", u),
               [value |-> value, prepares |-> EmptyMap, commits |-> EmptyMap])]

\* PBFTConsensus::vote: the vote is stored under "node" in the phases Prepare
\* and Commit, for a proposal the engine holds; the call returns Ok always.
PBFT_vote(self, proposal_id, vote) ==
    IF proposal_id \in DOMAIN self.proposals
    THEN CASE self.phase = "Prepare" ->
                [self EXCEPT !.proposals[proposal_id].prepares = Insert(@, "node", vote)]
           [] self.phase = "Commit" ->
                [self EXCEPT !.proposals[proposal_id].commits = Insert(@, "node", vote)]
           [] OTHER -> self
    ELSE self

StartCallsEngineFirst(net_ok) ==
    IF net_ok THEN <<"consensus.start", "network.start:Ok">>
    ELSE <<"consensus.start", "network.start:Err">>

\* Runtime::start: network.start()?, then consensus.start()?; the start of
\* every engine returns Ok.
StartCalls(net_ok) ==
    IF net_ok THEN <<"network.start:Ok", "consensus.start">>
    ELSE <<"network.start:Err">>

\* StateManager::commit with the uuid u: store.insert("value_<u>", value)
StateManager_commit(store, value, u) == Insert(store, PrefixedId("value", u), value)

\* Runtime::new under the algorithm of alg.
InitRuntime(alg) ==
    /\ rt_algorithm = alg
    /\ rt_engine = [e \in Engine |-> Engine_new(alg[e])]
    /\ rt_swarm = [e \in Engine |-> "None"]
    /\ rt_calls = [e \in Engine |-> <<>>]
    /\ rt_result = [e \in Engine |-> RtNone]
    /\ rt_issued = [e \in Engine |-> {}]
    /\ sm_store = [e \in Engine |-> EmptyMap]
    /\ rt_ops = 0

\* --------------------------------------- the network of network_impl.rs

\* serde_json's values, as far as the messages use them.
JString(s) == [kind |-> "string", str |-> s, num |-> 0, fields |-> <<>>]
JNumber(n) == [kind |-> "number", str |-> "", num |-> n, fields |-> <<>>]
JArray(items) == [kind |-> "array", str |-> "", num |-> 0, fields |-> items]
JObject(fields) == [kind |-> "object", str |-> "", num |-> 0, fields |-> fields]

\* Bytes that are no JSON text.
NotJson == [kind |-> "invalid", str |-> "", num |-> 0, fields |-> <<>>]

\* Vec<u8> as serde writes it: an array of numbers.
JBytes(v) == JArray([i \in 1..Len(v) |-> <<"", JNumber(v[i])>>])

IsJBytes(j) ==
    /\ j.kind = "array"
    /\ \A i \in 1..Len(j.fields) : j.fields[i][2].kind = "number"

FromJBytes(j) == [i \in 1..Len(j.fields) |-> j.fields[i][2].num]

\* The Messages followed: enum Message, externally tagged.
Heartbeat == [variant |-> "Heartbeat", bytes |-> <<>>]
CommitMsg(v) == [variant |-> "Commit", bytes |-> v]
GossipMsg(v) == [variant |-> "Gossip", bytes |-> v]

NetMessage == {Heartbeat, CommitMsg(<<1>>), GossipMsg(<<1>>)}

\* The name of the one field of a struct variant.
FieldOf(variant) == IF variant = "Commit" THEN "value" ELSE "data"

\* serde_json::to_vec(&msg) for a Message
Message_to_vec(msg) ==
    IF msg.variant = "Heartbeat"
    THEN JString("Heartbeat")
    ELSE JObject(<< <<msg.variant,
                      JObject(<< <<FieldOf(msg.variant), JBytes(msg.bytes)>> >>)>> >>)

\* serde_json::to_vec(&TargetedMessage { target, message })
TargetedMessage_to_vec(target, msg) ==
    JObject(<< <<"target", JString(target)>>, <<"message", Message_to_vec(msg)>> >>)

ParseErr == [ok |-> FALSE, msg |-> Heartbeat]
ParseOk(m) == [ok |-> TRUE, msg |-> m]

\* serde_json::from_slice::<Message>(data): a unit variant is its name as a
\* string, a struct variant a map of one key, the variant's name.
Message_from_slice(data) ==
    IF data.kind = "string"
    THEN IF data.str = "Heartbeat" THEN ParseOk(Heartbeat) ELSE ParseErr
    ELSE IF data.kind = "object" /\ Len(data.fields) = 1
    THEN LET tag == data.fields[1][1]
             body == data.fields[1][2]
         IN  IF /\ tag \in {"Commit", "Gossip"}
                /\ body.kind = "object"
                /\ Len(body.fields) = 1
                /\ body.fields[1][1] = FieldOf(tag)
                /\ IsJBytes(body.fields[1][2])
             THEN ParseOk([variant |-> tag, bytes |-> FromJBytes(body.fields[1][2])])
             ELSE ParseErr
    ELSE ParseErr

\* enum NetworkCommand
Broadcast(msg) == [cmd |-> "Broadcast", target |-> "", msg |-> msg, data |-> NotJson]
SendTo(node, msg) == [cmd |-> "SendTo", target |-> node, msg |-> msg, data |-> NotJson]
GossipCmd(data) == [cmd |-> "Gossip", target |-> "", msg |-> Heartbeat, data |-> data]

\* The data a caller gossips: bytes that read as a Message, and bytes that
\* do not.
GossipData == {Message_to_vec(Heartbeat), NotJson}

\* What handle_command publishes on the topic for a command.
Published(c) ==
    IF c.cmd = "Broadcast" THEN Message_to_vec(c.msg)
    ELSE IF c.cmd = "SendTo" THEN TargetedMessage_to_vec(c.target, c.msg)
    ELSE c.data

\* P2PNetworkLayer::new
InitNetwork ==
    /\ net_cmds = [n \in Engine |-> <<>>]
    /\ net_flight = {}
    /\ net_incoming = [n \in Engine |-> <<>>]
    /\ net_pubs = <<>>
    /\ net_log = {}
    /\ net_ops = 0

\* ------------------------------------------- the network of network.rs

\* mpsc::channel(100): the commands the channel holds before send waits.
ChannelCapacity == 100

\* The tasks that call broadcast, send_to and gossip on one P2PNetwork.
Caller == {"t1", "t2"}

\* enum NetworkCommand, by variant.
CommandKind == {"Broadcast", "SendTo", "Gossip"}

\* The caller is in no send.
NoSend == "None"

\* P2PNetwork::new: the channel is empty, and nobody is sending.
InitP2P ==
    /\ p2p_len = 0
    /\ p2p_pc = [c \in Caller |-> NoSend]

\* What Init leaves of the parts a behaviour of the nodes never touches.
InitRest ==
    /\ InitStores([d \in Store |-> Strong])
    /\ InitRuntime([e \in Engine |-> "Raft"])
    /\ InitNetwork
    /\ InitP2P

\* ----------------------------------------------------------------- Init

InitNodes ==
    /\ state = [n \in Node |-> "Follower"]
    /\ current_term = [n \in Node |-> 0]
    /\ voted_for = [n \in Node |-> None]
    /\ log = [n \in Node |-> <<>>]
    /\ commit_index = [n \in Node |-> 0]
    /\ last_applied = [n \in Node |-> 0]
    /\ next_index = [n \in Node |-> <<>>]
    /\ match_index = [n \in Node |-> <<>>]
    /\ peers = [n \in Node |-> {}]
    /\ last_heartbeat = [n \in Node |-> 0]
    /\ propose_result = [n \in Node |-> NoResult]
    /\ leaders = {}
    /\ steps = 0
    /\ epc = [n \in Node |-> "sleep"]
    /\ e_elapsed = [n \in Node |-> 0]
    /\ log_held = [n \in Node |-> FALSE]
    /\ hpc = [n \in Node |-> "recv"]
    /\ hmsg = [n \in Node |-> NoMsg]
    /\ h_ok = [n \in Node |-> FALSE]
    /\ ppc = [n \in Node |-> "idle"]
    /\ p_value = [n \in Node |-> 0]
    /\ p_term = [n \in Node |-> 0]
    /\ raft_state = [e \in Engine |->
                        [term |-> 0, voted_for |-> None, log |-> <<>>,
                         role |-> "Follower"]]
    /\ rc_result = [e \in Engine |-> NoResult]
    /\ issued = [n \in Node |-> {}]
    /\ votes_cast = [n \in Node |-> {}]
    /\ ae_refused = [n \in Node |-> FALSE]

Init == InitNodes /\ InitReplicas(DistinctIds) /\ InitRest

\* The replicas under any of the id assignments.
InitCrdt == InitNodes /\ InitRest /\ \E f \in IdAssignments : InitReplicas(f)

\* The history of leaders after a step.
RecordLeaders ==
    leaders' = leaders \cup
        { <<current_term'[n], n>> : n \in { m \in Node : state'[m] = "Leader" } }

\* -------------------------------------------------------------- actions

\* Time passes on node n: the Instant in last_heartbeat grows older.
Tick(n) ==
    /\ last_heartbeat[n] < ElectionTimeout
    /\ last_heartbeat' = [last_heartbeat EXCEPT ![n] = @ + 1]
    /\ UNCHANGED <<state, current_term, voted_for, log, commit_index, last_applied,
                   next_index, match_index, peers, propose_result, leaders>>

add_peer(n, p) ==
    /\ p \notin peers[n]
    /\ peers' = [peers EXCEPT ![n] = @ \cup {p}]
    /\ UNCHANGED <<state, current_term, voted_for, log, commit_index, last_applied,
                   next_index, match_index, last_heartbeat, propose_result,
                   leaders>>

\* One round of election_timer_loop whose test passes: start_election, and
\* become_leader when the node's own vote is a majority.
start_election(n) ==
    /\ state[n] # "Leader"
    /\ last_heartbeat[n] >= ElectionTimeout
    /\ current_term[n] < MaxTerm
    /\ current_term' = [current_term EXCEPT ![n] = @ + 1]
    /\ voted_for' = [voted_for EXCEPT ![n] = n]
    /\ votes_cast' = [votes_cast EXCEPT ![n] = {n}]
    /\ last_heartbeat' = [last_heartbeat EXCEPT ![n] = 0]
    /\ IF VoteCount >= Majority(peers[n])
       THEN /\ state' = [state EXCEPT ![n] = "Leader"]
            /\ next_index' = [next_index EXCEPT
                                ![n] = InsertAll(@, peers[n], Len(log[n]) + 1)]
            /\ match_index' = [match_index EXCEPT ![n] = InsertAll(@, peers[n], 0)]
       ELSE /\ state' = [state EXCEPT ![n] = "Candidate"]
            /\ UNCHANGED <<next_index, match_index>>
    /\ RecordLeaders
    /\ UNCHANGED <<log, commit_index, last_applied, peers, propose_result>>

RoleKept(higher, role) == role

\* handle_message: *state = NodeState::Follower for a message of a higher
\* term, written before the match on the message's type.
RoleAfterTermCheck(higher, role) == IF higher THEN "Follower" ELSE role

\* handle_message: the term check, then the handler of the message's type.
handle_message(n, m) ==
    LET higher == m.term > current_term[n]
        cur == IF higher THEN m.term ELSE current_term[n]
        st == RoleAfterTermCheck(higher, state[n])
        voted == IF higher THEN None ELSE voted_for[n]
    IN
    /\ current_term' = [current_term EXCEPT ![n] = cur]
    /\ CASE m.type = "RequestVote" ->
              LET granted == VoteGranted(m.term, cur, voted, m.candidate_id, log[n],
                                         m.last_log_index, m.last_log_term)
              IN  /\ state' = [state EXCEPT ![n] = st]
                  /\ voted_for' = [voted_for EXCEPT
                                     ![n] = IF granted THEN m.candidate_id ELSE voted]
                  /\ votes_cast' = [votes_cast EXCEPT
                        ![n] = (IF higher THEN {} ELSE @) \cup
                               (IF granted THEN {m.candidate_id} ELSE {})]
                  /\ UNCHANGED ae_refused
                  /\ last_heartbeat' = [last_heartbeat EXCEPT
                                          ![n] = IF granted THEN 0 ELSE @]
                  /\ UNCHANGED <<log, commit_index>>
         [] m.type = "AppendEntries" ->
              LET consistent == check_log_consistency(log[n], m.prev_log_index,
                                                      m.prev_log_term)
                  newlog == IF consistent
                            THEN AppendEntriesLog(log[n], m.prev_log_index, m.entries)
                            ELSE log[n]
              IN  /\ Len(newlog) <= MaxLog
                  /\ last_heartbeat' = [last_heartbeat EXCEPT ![n] = 0]
                  /\ state' = [state EXCEPT
                                 ![n] = IF TermOk(m.term, cur) THEN "Follower" ELSE st]
                  /\ voted_for' = [voted_for EXCEPT ![n] = voted]
                  /\ votes_cast' = [votes_cast EXCEPT ![n] = IF higher THEN {} ELSE @]
                  /\ ae_refused' = [ae_refused EXCEPT ![n] = ~consistent]
                  /\ log' = [log EXCEPT ![n] = newlog]
                  /\ commit_index' = [commit_index EXCEPT
                        ![n] = IF consistent
                               THEN AppendEntriesCommit(@, m.leader_commit, Len(newlog))
                               ELSE @]
         [] OTHER ->
              /\ state' = [state EXCEPT ![n] = st]
              /\ voted_for' = [voted_for EXCEPT ![n] = voted]
              /\ votes_cast' = [votes_cast EXCEPT ![n] = IF higher THEN {} ELSE @]
              /\ UNCHANGED <<log, commit_index, last_heartbeat, ae_refused>>
    /\ RecordLeaders
    /\ UNCHANGED <<last_applied, next_index, match_index, peers, propose_result>>

\* ConsensusEngine::propose of RaftNode, with append_log_entry.
propose(n, value) ==
    /\ IF MayPropose(state[n])
       THEN /\ Len(log[n]) < MaxLog
            /\ log' = [log EXCEPT
                         ![n] = Append(@, LogEntry(current_term[n], Len(@) + 1, value))]
            /\ propose_result' = [propose_result EXCEPT
                                    ![n] = ProposalId(n, Len(log[n]) + 1)]
            /\ issued' = [issued EXCEPT
                            ![n] = @ \cup {ProposalId(n, Len(log[n]) + 1).id}]
       ELSE /\ propose_result' = [propose_result EXCEPT ![n] = NotLeader]
            /\ UNCHANGED <<log, issued>>
    /\ UNCHANGED <<state, current_term, voted_for, commit_index, last_applied,
                   next_index, match_index, peers, last_heartbeat, leaders>>

\* ConsensusEngine::propose of RaftConsensus, under the write lock of its
\* state: the Leader pushes the entry, every other role returns the error.
\* (start, vote and on_commit of RaftConsensus return Ok and touch nothing.)
RaftConsensus_propose(e, value) ==
    /\ IF raft_state[e].role = "Leader"
       THEN /\ Len(raft_state[e].log) < MaxLog
            /\ raft_state' = [raft_state EXCEPT
                    ![e].log = Append(@, [term |-> raft_state[e].term,
                                          value |-> value])]
            /\ \E u \in Uuid :
                 rc_result' = [rc_result EXCEPT
                                 ![e] = [kind |-> "Ok", id |-> <<"raft", u>>]]
       ELSE /\ rc_result' = [rc_result EXCEPT ![e] = NotLeader]
            /\ UNCHANGED raft_state
    /\ UNCHANGED <<state, current_term, voted_for, log, commit_index,
                   last_applied, next_index, match_index, peers,
                   last_heartbeat, propose_result, leaders, issued,
                   votes_cast, ae_refused>>

\* The node whose tasks run in Spec.  The nodes of a cluster never read or
\* write each other's fields and raft.rs sends nothing, so the other nodes
\* show only as peer ids and as the senders of the messages handled.
Local == {"n1"}

\* The Runtime whose propose is called: nodes[0] of the three-node test.
\* The engines share nothing, so a call on one leaves the others alone.
Proposer == {"node1"}

Next ==
    \/ \E n \in Local : Tick(n) /\ UNCHANGED <<steps, taskvars, enginevars, issued, votes_cast, ae_refused, crdtvars>>
    \/ \E n \in Local : \E p \in Node \ {n} : add_peer(n, p) /\ UNCHANGED <<steps, taskvars, enginevars, issued, votes_cast, ae_refused, crdtvars>>
    \/ \E n \in Local : start_election(n) /\ UNCHANGED <<steps, taskvars, enginevars, issued, ae_refused, crdtvars>>
    \/ \E n \in Local : \E m \in Messages(n) : handle_message(n, m) /\ UNCHANGED <<steps, taskvars, enginevars, issued, crdtvars>>
    \/ \E n \in Local : \E v \in ClientValues : propose(n, v) /\ UNCHANGED <<steps, taskvars, enginevars, votes_cast, ae_refused, crdtvars>>
    \/ \E e \in Proposer : \E v \in ClientValues : RaftConsensus_propose(e, v) /\ UNCHANGED <<steps, taskvars, crdtvars>>

Spec == Init /\ [][Next]_vars

\* The tasks of a node never stop: the timer loop, the message handler loop
\* and the callers keep taking steps.
SpecLive == Init /\ [][Next]_vars /\ WF_vars(Next)

\* Every node of the cluster runs; the behaviours are followed for
\* ClusterSteps steps.
Step == steps < ClusterSteps /\ steps' = steps + 1

NextCluster ==
    \/ \E n \in Node : Tick(n) /\ Step /\ UNCHANGED <<taskvars, enginevars, issued, votes_cast, ae_refused, crdtvars>>
    \/ \E n \in Node : \E p \in Node \ {n} : add_peer(n, p) /\ Step /\ UNCHANGED <<taskvars, enginevars, issued, votes_cast, ae_refused, crdtvars>>
    \/ \E n \in Node : start_election(n) /\ Step /\ UNCHANGED <<taskvars, enginevars, issued, ae_refused, crdtvars>>
    \/ \E n \in Node : \E m \in Messages(n) : handle_message(n, m) /\ Step /\ UNCHANGED <<taskvars, enginevars, issued, crdtvars>>
    \/ \E n \in Node : \E v \in ClientValues : propose(n, v) /\ Step /\ UNCHANGED <<taskvars, enginevars, votes_cast, ae_refused, crdtvars>>

SpecCluster == Init /\ [][NextCluster]_vars

\* ------------------------------------------------ the tasks, step by step

\* SpecConc runs the three tasks of a node one lock acquisition at a time:
\* every field of RaftNode sits behind its own RwLock, so the tasks, which
\* tokio::spawn puts on a multi-threaded runtime, interleave between any two
\* acquisitions.

\* The match on message.message_type of handle_message.
Dispatch(m) ==
    CASE m.type = "RequestVote" -> "rv_term"
      [] m.type = "AppendEntries" -> "ae_term"
      [] OTHER -> "recv"

\* election_timer_loop: the sleep ends and last_heartbeat is read.
election_timer_wake(n) ==
    /\ epc[n] = "sleep"
    /\ e_elapsed' = [e_elapsed EXCEPT ![n] = last_heartbeat[n]]
    /\ epc' = [epc EXCEPT ![n] = "check_state"]
    /\ UNCHANGED <<state, current_term, voted_for, log, commit_index,
                   last_applied, next_index, match_index, peers,
                   last_heartbeat, propose_result, leaders, steps, log_held,
                   hpc, hmsg, h_ok, ppc, p_value, p_term, raft_state,
                   rc_result, issued, votes_cast, ae_refused, crdtvars>>

\* election_timer_loop: state is read and the election test is made.
election_timer_check(n) ==
    /\ epc[n] = "check_state"
    /\ epc' = [epc EXCEPT ![n] = IF state[n] # "Leader" /\ e_elapsed[n] >= ElectionTimeout
                                 THEN "set_candidate" ELSE "sleep"]
    /\ e_elapsed' = [e_elapsed EXCEPT ![n] = 0]
    /\ UNCHANGED <<state, current_term, voted_for, log, commit_index,
                   last_applied, next_index, match_index, peers,
                   last_heartbeat, propose_result, leaders, steps, log_held,
                   hpc, hmsg, h_ok, ppc, p_value, p_term, raft_state,
                   rc_result, issued, votes_cast, ae_refused, crdtvars>>

\* start_election: *state = NodeState::Candidate
se_candidate(n) ==
    /\ epc[n] = "set_candidate"
    /\ state' = [state EXCEPT ![n] = "Candidate"]
    /\ epc' = [epc EXCEPT ![n] = "inc_term"]
    /\ UNCHANGED <<current_term, voted_for, log, commit_index, last_applied,
                   next_index, match_index, peers, last_heartbeat,
                   propose_result, steps, e_elapsed, log_held, hpc, hmsg, h_ok,
                   ppc, p_value, p_term, raft_state, rc_result, issued,
                   votes_cast, ae_refused, crdtvars>>
    /\ RecordLeaders

\* start_election: *current_term += 1
se_term(n) ==
    /\ epc[n] = "inc_term"
    /\ current_term[n] < MaxTerm
    /\ current_term' = [current_term EXCEPT ![n] = @ + 1]
    /\ votes_cast' = [votes_cast EXCEPT ![n] = {}]
    /\ epc' = [epc EXCEPT ![n] = "vote_self"]
    /\ UNCHANGED <<state, voted_for, log, commit_index, last_applied,
                   next_index, match_index, peers, last_heartbeat,
                   propose_result, steps, e_elapsed, log_held, hpc, hmsg, h_ok,
                   ppc, p_value, p_term, raft_state, rc_result, issued,
                   ae_refused, crdtvars>>
    /\ RecordLeaders

\* start_election: *voted_for = Some(self.node_id)
se_vote(n) ==
    /\ epc[n] = "vote_self"
    /\ voted_for' = [voted_for EXCEPT ![n] = n]
    /\ votes_cast' = [votes_cast EXCEPT ![n] = @ \cup {n}]
    /\ epc' = [epc EXCEPT ![n] = "reset_timer"]
    /\ UNCHANGED <<state, current_term, log, commit_index, last_applied,
                   next_index, match_index, peers, last_heartbeat,
                   propose_result, leaders, steps, e_elapsed, log_held, hpc,
                   hmsg, h_ok, ppc, p_value, p_term, raft_state, rc_result,
                   issued, ae_refused, crdtvars>>

\* start_election: *last_heartbeat = Instant::now()
se_timer(n) ==
    /\ epc[n] = "reset_timer"
    /\ last_heartbeat' = [last_heartbeat EXCEPT ![n] = 0]
    /\ epc' = [epc EXCEPT ![n] = "count_votes"]
    /\ UNCHANGED <<state, current_term, voted_for, log, commit_index,
                   last_applied, next_index, match_index, peers,
                   propose_result, leaders, steps, e_elapsed, log_held, hpc,
                   hmsg, h_ok, ppc, p_value, p_term, raft_state, rc_result,
                   issued, votes_cast, ae_refused, crdtvars>>

\* start_election: the read guard on the log is taken and kept, the peers are
\* read and the node's own vote is compared with the majority.
se_count(n) ==
    /\ epc[n] = "count_votes"
    /\ IF VoteCount >= Majority(peers[n])
       THEN /\ epc' = [epc EXCEPT ![n] = "become_leader"]
            /\ log_held' = [log_held EXCEPT ![n] = TRUE]
       ELSE /\ epc' = [epc EXCEPT ![n] = "sleep"]
            /\ UNCHANGED log_held
    /\ UNCHANGED <<state, current_term, voted_for, log, commit_index,
                   last_applied, next_index, match_index, peers,
                   last_heartbeat, propose_result, leaders, steps, e_elapsed,
                   hpc, hmsg, h_ok, ppc, p_value, p_term, raft_state,
                   rc_result, issued, votes_cast, ae_refused, crdtvars>>

\* become_leader: *state = NodeState::Leader
bl_leader(n) ==
    /\ epc[n] = "become_leader"
    /\ state' = [state EXCEPT ![n] = "Leader"]
    /\ epc' = [epc EXCEPT ![n] = "init_leader"]
    /\ UNCHANGED <<current_term, voted_for, log, commit_index, last_applied,
                   next_index, match_index, peers, last_heartbeat,
                   propose_result, steps, e_elapsed, log_held, hpc, hmsg, h_ok,
                   ppc, p_value, p_term, raft_state, rc_result, issued,
                   votes_cast, ae_refused, crdtvars>>
    /\ RecordLeaders

\* become_leader: the log length and the peers are read, next_index and
\* match_index are filled; start_election returns and drops its log guard.
bl_init(n) ==
    /\ epc[n] = "init_leader"
    /\ next_index' = [next_index EXCEPT ![n] = InsertAll(@, peers[n], Len(log[n]) + 1)]
    /\ match_index' = [match_index EXCEPT ![n] = InsertAll(@, peers[n], 0)]
    /\ log_held' = [log_held EXCEPT ![n] = FALSE]
    /\ epc' = [epc EXCEPT ![n] = "sleep"]
    /\ UNCHANGED <<state, current_term, voted_for, log, commit_index,
                   last_applied, peers, last_heartbeat, propose_result,
                   leaders, steps, e_elapsed, hpc, hmsg, h_ok, ppc, p_value,
                   p_term, raft_state, rc_result, issued, votes_cast,
                   ae_refused, crdtvars>>

\* handle_message: a message is received, current_term is read and compared
\* with the message's term.
hm_recv(n, m) ==
    /\ hpc[n] = "recv"
    /\ LET to == IF m.term > current_term[n] THEN "set_term" ELSE Dispatch(m)
       IN  /\ hpc' = [hpc EXCEPT ![n] = to]
           /\ hmsg' = [hmsg EXCEPT ![n] = IF to = "recv" THEN NoMsg ELSE m]
    /\ UNCHANGED <<state, current_term, voted_for, log, commit_index,
                   last_applied, next_index, match_index, peers,
                   last_heartbeat, propose_result, leaders, steps, epc,
                   e_elapsed, log_held, h_ok, ppc, p_value, p_term, raft_state,
                   rc_result, issued, votes_cast, ae_refused, crdtvars>>

\* handle_message: *term = message.term
hm_term(n) ==
    /\ hpc[n] = "set_term"
    /\ current_term' = [current_term EXCEPT ![n] = hmsg[n].term]
    /\ votes_cast' = [votes_cast EXCEPT
            ![n] = IF hmsg[n].term = current_term[n] THEN @ ELSE {}]
    /\ hpc' = [hpc EXCEPT ![n] = "set_follower"]
    /\ UNCHANGED <<state, voted_for, log, commit_index, last_applied,
                   next_index, match_index, peers, last_heartbeat,
                   propose_result, steps, epc, e_elapsed, log_held, hmsg, h_ok,
                   ppc, p_value, p_term, raft_state, rc_result, issued,
                   ae_refused, crdtvars>>
    /\ RecordLeaders

\* handle_message: *state = NodeState::Follower
hm_follower(n) ==
    /\ hpc[n] = "set_follower"
    /\ state' = [state EXCEPT ![n] = "Follower"]
    /\ hpc' = [hpc EXCEPT ![n] = "clear_vote"]
    /\ UNCHANGED <<current_term, voted_for, log, commit_index, last_applied,
                   next_index, match_index, peers, last_heartbeat,
                   propose_result, steps, epc, e_elapsed, log_held, hmsg, h_ok,
                   ppc, p_value, p_term, raft_state, rc_result, issued,
                   votes_cast, ae_refused, crdtvars>>
    /\ RecordLeaders

\* handle_message: *voted_for = None, then the match on the message type.
hm_vote(n) ==
    /\ hpc[n] = "clear_vote"
    /\ voted_for' = [voted_for EXCEPT ![n] = None]
    /\ hpc' = [hpc EXCEPT ![n] = Dispatch(hmsg[n])]
    /\ hmsg' = [hmsg EXCEPT ![n] = IF Dispatch(@) = "recv" THEN NoMsg ELSE @]
    /\ UNCHANGED <<state, current_term, log, commit_index, last_applied,
                   next_index, match_index, peers, last_heartbeat,
                   propose_result, leaders, steps, epc, e_elapsed, log_held,
                   h_ok, ppc, p_value, p_term, raft_state, rc_result, issued,
                   votes_cast, ae_refused, crdtvars>>

\* handle_request_vote: current_term is read.
rv_term(n) ==
    /\ hpc[n] = "rv_term"
    /\ h_ok' = [h_ok EXCEPT ![n] = TermOk(hmsg[n].term, current_term[n])]
    /\ hpc' = [hpc EXCEPT ![n] = "rv_voted"]
    /\ UNCHANGED <<state, current_term, voted_for, log, commit_index,
                   last_applied, next_index, match_index, peers,
                   last_heartbeat, propose_result, leaders, steps, epc,
                   e_elapsed, log_held, hmsg, ppc, p_value, p_term, raft_state,
                   rc_result, issued, votes_cast, ae_refused, crdtvars>>

\* handle_request_vote: voted_for is read.
rv_voted(n) ==
    /\ hpc[n] = "rv_voted"
    /\ h_ok' = [h_ok EXCEPT ![n] = @ /\ VoteFree(voted_for[n], hmsg[n].candidate_id)]
    /\ hpc' = [hpc EXCEPT ![n] = "rv_log"]
    /\ UNCHANGED <<state, current_term, voted_for, log, commit_index,
                   last_applied, next_index, match_index, peers,
                   last_heartbeat, propose_result, leaders, steps, epc,
                   e_elapsed, log_held, hmsg, ppc, p_value, p_term, raft_state,
                   rc_result, issued, votes_cast, ae_refused, crdtvars>>

\* handle_request_vote: is_log_up_to_date reads the log; vote_granted is known.
rv_log(n) ==
    /\ hpc[n] = "rv_log"
    /\ LET granted == h_ok[n] /\ is_log_up_to_date(log[n], hmsg[n].last_log_index,
                                                    hmsg[n].last_log_term)
       IN  /\ hpc' = [hpc EXCEPT ![n] = IF granted THEN "rv_grant" ELSE "recv"]
           /\ hmsg' = [hmsg EXCEPT ![n] = IF granted THEN @ ELSE NoMsg]
    /\ h_ok' = [h_ok EXCEPT ![n] = FALSE]
    /\ UNCHANGED <<state, current_term, voted_for, log, commit_index,
                   last_applied, next_index, match_index, peers,
                   last_heartbeat, propose_result, leaders, steps, epc,
                   e_elapsed, log_held, ppc, p_value, p_term, raft_state,
                   rc_result, issued, votes_cast, ae_refused, crdtvars>>

\* handle_request_vote: *voted = Some(candidate_id)
rv_grant(n) ==
    /\ hpc[n] = "rv_grant"
    /\ voted_for' = [voted_for EXCEPT ![n] = hmsg[n].candidate_id]
    /\ votes_cast' = [votes_cast EXCEPT ![n] = @ \cup {hmsg[n].candidate_id}]
    /\ hpc' = [hpc EXCEPT ![n] = "rv_timer"]
    /\ UNCHANGED <<state, current_term, log, commit_index, last_applied,
                   next_index, match_index, peers, last_heartbeat,
                   propose_result, leaders, steps, epc, e_elapsed, log_held,
                   hmsg, h_ok, ppc, p_value, p_term, raft_state, rc_result,
                   issued, ae_refused, crdtvars>>

\* handle_request_vote: *last_heartbeat = Instant::now()
rv_timer(n) ==
    /\ hpc[n] = "rv_timer"
    /\ last_heartbeat' = [last_heartbeat EXCEPT ![n] = 0]
    /\ hpc' = [hpc EXCEPT ![n] = "recv"]
    /\ hmsg' = [hmsg EXCEPT ![n] = NoMsg]
    /\ UNCHANGED <<state, current_term, voted_for, log, commit_index,
                   last_applied, next_index, match_index, peers,
                   propose_result, leaders, steps, epc, e_elapsed, log_held,
                   h_ok, ppc, p_value, p_term, raft_state, rc_result, issued,
                   votes_cast, ae_refused, crdtvars>>

\* handle_append_entries: current_term is read.
ae_term(n) ==
    /\ hpc[n] = "ae_term"
    /\ h_ok' = [h_ok EXCEPT ![n] = TermOk(hmsg[n].term, current_term[n])]
    /\ hpc' = [hpc EXCEPT ![n] = "ae_timer"]
    /\ UNCHANGED <<state, current_term, voted_for, log, commit_index,
                   last_applied, next_index, match_index, peers,
                   last_heartbeat, propose_result, leaders, steps, epc,
                   e_elapsed, log_held, hmsg, ppc, p_value, p_term, raft_state,
                   rc_result, issued, votes_cast, ae_refused, crdtvars>>

\* handle_append_entries: *last_heartbeat = Instant::now()
ae_timer(n) ==
    /\ hpc[n] = "ae_timer"
    /\ last_heartbeat' = [last_heartbeat EXCEPT ![n] = 0]
    /\ hpc' = [hpc EXCEPT ![n] = IF h_ok[n] THEN "ae_follower" ELSE "ae_check"]
    /\ h_ok' = [h_ok EXCEPT ![n] = FALSE]
    /\ UNCHANGED <<state, current_term, voted_for, log, commit_index,
                   last_applied, next_index, match_index, peers,
                   propose_result, leaders, steps, epc, e_elapsed, log_held,
                   hmsg, ppc, p_value, p_term, raft_state, rc_result, issued,
                   votes_cast, ae_refused, crdtvars>>

\* handle_append_entries: *state = NodeState::Follower
ae_follower(n) ==
    /\ hpc[n] = "ae_follower"
    /\ state' = [state EXCEPT ![n] = "Follower"]
    /\ hpc' = [hpc EXCEPT ![n] = "ae_check"]
    /\ UNCHANGED <<current_term, voted_for, log, commit_index, last_applied,
                   next_index, match_index, peers, last_heartbeat,
                   propose_result, steps, epc, e_elapsed, log_held, hmsg, h_ok,
                   ppc, p_value, p_term, raft_state, rc_result, issued,
                   votes_cast, ae_refused, crdtvars>>
    /\ RecordLeaders

\* handle_append_entries: check_log_consistency reads the log.
ae_check(n) ==
    /\ hpc[n] = "ae_check"
    /\ LET consistent == check_log_consistency(log[n], hmsg[n].prev_log_index,
                                               hmsg[n].prev_log_term)
       IN  /\ hpc' = [hpc EXCEPT ![n] = IF consistent THEN "ae_write" ELSE "recv"]
           /\ hmsg' = [hmsg EXCEPT ![n] = IF consistent THEN @ ELSE NoMsg]
           /\ ae_refused' = [ae_refused EXCEPT ![n] = ~consistent]
    /\ UNCHANGED <<state, current_term, voted_for, log, commit_index,
                   last_applied, next_index, match_index, peers,
                   last_heartbeat, propose_result, leaders, steps, epc,
                   e_elapsed, log_held, h_ok, ppc, p_value, p_term, raft_state,
                   rc_result, issued, votes_cast, crdtvars>>

\* handle_append_entries: the log is truncated and extended under its write
\* lock, which waits for start_election's read guard.
ae_write(n) ==
    /\ hpc[n] = "ae_write"
    /\ ~log_held[n]
    /\ LET newlog == AppendEntriesLog(log[n], hmsg[n].prev_log_index, hmsg[n].entries)
       IN  /\ Len(newlog) <= MaxLog
           /\ log' = [log EXCEPT ![n] = newlog]
    /\ hpc' = [hpc EXCEPT ![n] = "ae_commit"]
    /\ UNCHANGED <<state, current_term, voted_for, commit_index, last_applied,
                   next_index, match_index, peers, last_heartbeat,
                   propose_result, leaders, steps, epc, e_elapsed, log_held,
                   hmsg, h_ok, ppc, p_value, p_term, raft_state, rc_result,
                   issued, votes_cast, ae_refused, crdtvars>>

\* handle_append_entries: commit_index is compared with leader_commit, the
\* log length is read and commit_index is written.
ae_commit(n) ==
    /\ hpc[n] = "ae_commit"
    /\ commit_index' = [commit_index EXCEPT
            ![n] = AppendEntriesCommit(@, hmsg[n].leader_commit, Len(log[n]))]
    /\ hpc' = [hpc EXCEPT ![n] = "recv"]
    /\ hmsg' = [hmsg EXCEPT ![n] = NoMsg]
    /\ UNCHANGED <<state, current_term, voted_for, log, last_applied,
                   next_index, match_index, peers, last_heartbeat,
                   propose_result, leaders, steps, epc, e_elapsed, log_held,
                   h_ok, ppc, p_value, p_term, raft_state, rc_result, issued,
                   votes_cast, ae_refused, crdtvars>>

\* propose: state is read; a node that is not Leader returns the error.
propose_call(n, value) ==
    /\ ppc[n] = "idle"
    /\ IF MayPropose(state[n])
       THEN /\ ppc' = [ppc EXCEPT ![n] = "append_term"]
            /\ p_value' = [p_value EXCEPT ![n] = value]
            /\ UNCHANGED propose_result
       ELSE /\ propose_result' = [propose_result EXCEPT ![n] = NotLeader]
            /\ UNCHANGED <<ppc, p_value>>
    /\ UNCHANGED <<state, current_term, voted_for, log, commit_index,
                   last_applied, next_index, match_index, peers,
                   last_heartbeat, leaders, steps, epc, e_elapsed, log_held,
                   hpc, hmsg, h_ok, p_term, raft_state, rc_result, issued,
                   votes_cast, ae_refused, crdtvars>>

\* append_log_entry: current_term is read.
al_term(n) ==
    /\ ppc[n] = "append_term"
    /\ p_term' = [p_term EXCEPT ![n] = current_term[n]]
    /\ ppc' = [ppc EXCEPT ![n] = "append_log"]
    /\ UNCHANGED <<state, current_term, voted_for, log, commit_index,
                   last_applied, next_index, match_index, peers,
                   last_heartbeat, propose_result, leaders, steps, epc,
                   e_elapsed, log_held, hpc, hmsg, h_ok, p_value, raft_state,
                   rc_result, issued, votes_cast, ae_refused, crdtvars>>

\* append_log_entry: the entry is pushed under the log's write lock; propose
\* returns the ProposalId.
al_push(n) ==
    /\ ppc[n] = "append_log"
    /\ ~log_held[n]
    /\ Len(log[n]) < MaxLog
    /\ log' = [log EXCEPT ![n] = Append(@, LogEntry(p_term[n], Len(@) + 1, p_value[n]))]
    /\ propose_result' = [propose_result EXCEPT ![n] = ProposalId(n, Len(log[n]) + 1)]
    /\ issued' = [issued EXCEPT ![n] = @ \cup {ProposalId(n, Len(log[n]) + 1).id}]
    /\ ppc' = [ppc EXCEPT ![n] = "idle"]
    /\ p_term' = [p_term EXCEPT ![n] = 0]
    /\ UNCHANGED <<state, current_term, voted_for, commit_index, last_applied,
                   next_index, match_index, peers, last_heartbeat, leaders,
                   steps, epc, e_elapsed, log_held, hpc, hmsg, h_ok, p_value,
                   raft_state, rc_result, votes_cast, ae_refused, crdtvars>>

\* Time passes on node n while its tasks run: last_heartbeat and the copy
\* the election timer holds grow older.
time_passes(n) ==
    /\ \/ last_heartbeat[n] < ElectionTimeout
       \/ (epc[n] = "check_state" /\ e_elapsed[n] < ElectionTimeout)
    /\ last_heartbeat' = [last_heartbeat EXCEPT ![n] = Min(@ + 1, ElectionTimeout)]
    /\ e_elapsed' = [e_elapsed EXCEPT
            ![n] = IF epc[n] = "check_state" THEN Min(@ + 1, ElectionTimeout) ELSE @]
    /\ UNCHANGED <<state, current_term, voted_for, log, commit_index,
                   last_applied, next_index, match_index, peers,
                   propose_result, leaders, steps, epc, log_held, hpc, hmsg,
                   h_ok, ppc, p_value, p_term, raft_state, rc_result, issued,
                   votes_cast, ae_refused, crdtvars>>

NextConc ==
    \/ \E n \in Local : election_timer_wake(n)
    \/ \E n \in Local : election_timer_check(n)
    \/ \E n \in Local : se_candidate(n)
    \/ \E n \in Local : se_term(n)
    \/ \E n \in Local : se_vote(n)
    \/ \E n \in Local : se_timer(n)
    \/ \E n \in Local : se_count(n)
    \/ \E n \in Local : bl_leader(n)
    \/ \E n \in Local : bl_init(n)
    \/ \E n \in Local : \E m \in ConcMessages(n) : hm_recv(n, m)
    \/ \E n \in Local : hm_term(n)
    \/ \E n \in Local : hm_follower(n)
    \/ \E n \in Local : hm_vote(n)
    \/ \E n \in Local : rv_term(n)
    \/ \E n \in Local : rv_voted(n)
    \/ \E n \in Local : rv_log(n)
    \/ \E n \in Local : rv_grant(n)
    \/ \E n \in Local : rv_timer(n)
    \/ \E n \in Local : ae_term(n)
    \/ \E n \in Local : ae_timer(n)
    \/ \E n \in Local : ae_follower(n)
    \/ \E n \in Local : ae_check(n)
    \/ \E n \in Local : ae_write(n)
    \/ \E n \in Local : ae_commit(n)
    \/ \E n \in Local : \E v \in ClientValues : propose_call(n, v)
    \/ \E n \in Local : al_term(n)
    \/ \E n \in Local : al_push(n)
    \/ \E n \in Local : time_passes(n)
    \/ \E n \in Local : \E p \in Node \ {n} : add_peer(n, p) /\ UNCHANGED <<steps, taskvars, enginevars, issued, votes_cast, ae_refused, crdtvars>>

SpecConc == Init /\ [][NextConc]_vars

\* ------------------------------------------------------- the counters

\* The operations followed on the replicas of one behaviour.
MaxOps == 3

\* The increments followed on the GCounters of one behaviour: those of the
\* three-replica scenario, 3 + 5 + 1.
MaxIncrements == 9

\* r.increment() on a GCounter
gcounter_increment(r) ==
    /\ crdt_ops < MaxIncrements
    /\ crdt_ops' = crdt_ops + 1
    /\ gcounter' = [gcounter EXCEPT ![r] = GCounter_increment(@)]
    /\ g_incs' = [g_incs EXCEPT ![r] = @ + 1]
    /\ UNCHANGED <<pncounter, lwwmap, lww_now, orvars, noncrdtvars>>

\* r.merge(&s) on GCounters
gcounter_merge(r, s) ==
    /\ gcounter' = [gcounter EXCEPT ![r] = GCounter_merge(@, gcounter[s])]
    /\ UNCHANGED <<g_incs, pncounter, lwwmap, lww_now, crdt_ops, orvars, noncrdtvars>>

NextGCounter ==
    \/ \E r \in Replica : gcounter_increment(r)
    \/ \E r \in Replica : \E s \in Replica \ {r} : gcounter_merge(r, s)

SpecGCounter == InitCrdt /\ [][NextGCounter]_vars

\* r.increment() on a PNCounter
pncounter_increment(r) ==
    /\ crdt_ops < MaxOps
    /\ crdt_ops' = crdt_ops + 1
    /\ pncounter' = [pncounter EXCEPT ![r] = PNCounter_increment(@)]
    /\ UNCHANGED <<gcounter, g_incs, lwwmap, lww_now, orvars, noncrdtvars>>

\* r.decrement() on a PNCounter
pncounter_decrement(r) ==
    /\ crdt_ops < MaxOps
    /\ crdt_ops' = crdt_ops + 1
    /\ pncounter' = [pncounter EXCEPT ![r] = PNCounter_decrement(@)]
    /\ UNCHANGED <<gcounter, g_incs, lwwmap, lww_now, orvars, noncrdtvars>>

\* r.merge(&s) on PNCounters
pncounter_merge(r, s) ==
    /\ pncounter' = [pncounter EXCEPT ![r] = PNCounter_merge(@, pncounter[s])]
    /\ UNCHANGED <<gcounter, g_incs, lwwmap, lww_now, crdt_ops, orvars, noncrdtvars>>

NextPNCounter ==
    \/ \E r \in Replica : pncounter_increment(r)
    \/ \E r \in Replica : pncounter_decrement(r)
    \/ \E r \in Replica : \E s \in Replica \ {r} : pncounter_merge(r, s)

SpecPNCounter == InitCrdt /\ [][NextPNCounter]_vars

\* --------------------------------------------------------- the LWW map

\* The keys and the values written.
LwwKey == {"k1", "k2"}
LwwValue == {1, 2}

\* The milliseconds followed.
MaxTime == 2

\* The system clock reaches the next millisecond.
lww_clock ==
    /\ lww_now < MaxTime
    /\ lww_now' = lww_now + 1
    /\ UNCHANGED <<gcounter, g_incs, pncounter, lwwmap, crdt_ops, orvars, noncrdtvars>>

\* r.set(key, value)
lwwmap_set(r, key, value) ==
    /\ crdt_ops < MaxOps
    /\ crdt_ops' = crdt_ops + 1
    /\ lwwmap' = [lwwmap EXCEPT ![r] = LWWMap_set(@, key, value, lww_now)]
    /\ UNCHANGED <<gcounter, g_incs, pncounter, lww_now, orvars, noncrdtvars>>

\* r.merge(&s)
lwwmap_merge(r, s) ==
    /\ lwwmap' = [lwwmap EXCEPT ![r] = LWWMap_merge(@, lwwmap[s])]
    /\ UNCHANGED <<gcounter, g_incs, pncounter, lww_now, crdt_ops, orvars, noncrdtvars>>

NextLWWMap ==
    \/ lww_clock
    \/ \E r \in Replica : \E k \in LwwKey : \E v \in LwwValue : lwwmap_set(r, k, v)
    \/ \E r \in Replica : \E s \in Replica \ {r} : lwwmap_merge(r, s)

\* The replicas have node ids of their own.
SpecLWWMap == Init /\ [][NextLWWMap]_vars

\* ----------------------------------------------------------- the OR-set

\* The elements added and removed.
OrElem == {"x", "y"}

\* A call on a replica, as or_scn records it.
OrCall(op, r, arg) == <<op, r, arg>>

\* The calls of the add-wins scenario: r1 adds "x", r2 merges r1 and then
\* removes "x" while r1 adds "x" again, and each merges the other.
AddWinsRuns ==
    LET a1  == OrCall("add", "r1", "x")
        rm2 == OrCall("remove", "r2", "x")
        m12 == OrCall("merge", "r1", "r2")
        m21 == OrCall("merge", "r2", "r1")
    IN  { <<a1, m21>> \o mid \o fin :
            mid \in {<<rm2, a1>>, <<a1, rm2>>}, fin \in {<<m12, m21>>, <<m21, m12>>} }

\* The calls of the removal scenario: r1 adds "x", r2 merges r1 and removes
\* "x", and then one of the two merges the other.
RemoveRuns ==
    LET a1  == OrCall("add", "r1", "x")
        rm2 == OrCall("remove", "r2", "x")
        m12 == OrCall("merge", "r1", "r2")
        m21 == OrCall("merge", "r2", "r1")
    IN  { <<a1, m21, rm2, fin>> : fin \in {m12, m21} }

\* The scenarios followed.
ScenarioRuns == AddWinsRuns \cup RemoveRuns

IsPrefix(s1, s2) == Len(s1) <= Len(s2) /\ \A i \in 1..Len(s1) : s1[i] = s2[i]

\* or_scn after the call c: the calls on r1 and r2 as long as they follow
\* a scenario, starting over when they leave it; the calls on the other
\* replicas touch neither r1 nor r2.
Recorded(scn, c) ==
    IF c[2] \notin {"r1", "r2"} THEN scn
    ELSE IF \E run \in ScenarioRuns : IsPrefix(Append(scn, c), run) THEN Append(scn, c)
    ELSE IF c = OrCall("add", "r1", "x") THEN <<c>>
    ELSE <<>>

\* r.add(element)
orset_add(r, element) ==
    /\ crdt_ops < MaxOps
    /\ crdt_ops' = crdt_ops + 1
    /\ orset' = [orset EXCEPT ![r] = ORSet_add(@, element)]
    /\ or_scn' = Recorded(or_scn, OrCall("add", r, element))
    /\ UNCHANGED <<gcounter, g_incs, pncounter, lwwmap, lww_now, noncrdtvars>>

\* r.remove(&element)
orset_remove(r, element) ==
    /\ crdt_ops < MaxOps
    /\ crdt_ops' = crdt_ops + 1
    /\ orset' = [orset EXCEPT ![r] = ORSet_remove(@, element)]
    /\ or_scn' = Recorded(or_scn, OrCall("remove", r, element))
    /\ UNCHANGED <<gcounter, g_incs, pncounter, lwwmap, lww_now, noncrdtvars>>

\* r.merge(&s)
orset_merge(r, s) ==
    /\ orset' = [orset EXCEPT ![r] = ORSet_merge(@, orset[s])]
    /\ or_scn' = Recorded(or_scn, OrCall("merge", r, s))
    /\ UNCHANGED <<gcounter, g_incs, pncounter, lwwmap, lww_now, crdt_ops, noncrdtvars>>

NextORSet ==
    \/ \E r \in Replica : \E e \in OrElem : orset_add(r, e)
    \/ \E r \in Replica : \E e \in OrElem : orset_remove(r, e)
    \/ \E r \in Replica : \E s \in Replica \ {r} : orset_merge(r, s)

SpecORSet == InitCrdt /\ [][NextORSet]_vars

\* ------------------------------------------------------ the vector clocks

\* The operations followed on the clocks of one behaviour.
MaxClockOps == 4

\* r.increment()
vclock_increment(r) ==
    /\ vc_ops < MaxClockOps
    /\ vc_ops' = vc_ops + 1
    /\ vclock' = [vclock EXCEPT ![r] = VectorClock_increment(@)]
    /\ UNCHANGED <<vc_knows, notvc>>

\* r.update(&s): r receives the event of s
vclock_update(r, s) ==
    /\ vc_ops < MaxClockOps
    /\ vc_ops' = vc_ops + 1
    /\ vclock' = [vclock EXCEPT ![r] = VectorClock_update(@, vclock[s])]
    /\ vc_knows' = [vc_knows EXCEPT ![r] = @ \cup vc_knows[s]]
    /\ UNCHANGED notvc

NextVClock ==
    \/ \E r \in Replica : vclock_increment(r)
    \/ \E r \in Replica : \E s \in Replica \ {r} : vclock_update(r, s)

SpecVClock == InitCrdt /\ [][NextVClock]_vars

\* ------------------------------------------------- the stores, acting

\* The set calls followed on the stores of one behaviour.
MaxSets == 3

\* d.set(key, value)
ds_set(d, key, value) ==
    /\ ds_ops < MaxSets
    /\ ds_ops' = ds_ops + 1
    /\ LET r == DistributedState_set(dstate[d], key, value)
       IN  /\ dstate' = [dstate EXCEPT ![d] = r.self]
           /\ ds_result' = [ds_result EXCEPT ![d] = [kind |-> r.kind, acks |-> r.acks]]
    /\ UNCHANGED notstore

\* The stores beside the engine of the Runtime, which state.rs never calls.
NextStore ==
    \/ \E d \in Store : \E k \in StoreKey : \E v \in StoreValue : ds_set(d, k, v)
    \/ \E e \in Proposer : \E v \in ClientValues :
          RaftConsensus_propose(e, v) /\ UNCHANGED <<steps, taskvars, crdtvars>>

\* The stores under any consistency levels.
InitStore ==
    /\ InitNodes /\ InitReplicas(DistinctIds)
    /\ \E lv \in [Store -> Level] : InitStores(lv)
    /\ InitRuntime([e \in Engine |-> "Raft"]) /\ InitNetwork /\ InitP2P

SpecStore == InitStore /\ [][NextStore]_vars

\* ------------------------------------------------- the Runtime, acting

\* The calls followed on the Runtime of one behaviour.
MaxCalls == 3

\* What the calls on the Runtime leave alone, the engine of RaftConsensus
\* apart.
notrt == <<objvars, vcvars, storevars, netvars, p2pvars>>

\* Runtime::start
Runtime_start(e) ==
    /\ rt_ops < MaxCalls
    /\ rt_ops' = rt_ops + 1
    /\ \E net_ok \in BOOLEAN :
         /\ rt_calls' = [rt_calls EXCEPT ![e] = @ \o StartCalls(net_ok)]
         /\ rt_swarm' = [rt_swarm EXCEPT ![e] = IF net_ok THEN "Some" ELSE @]
         /\ rt_result' = [rt_result EXCEPT
                ![e] = IF net_ok THEN RtOk("start", <<>>) ELSE RtErr("start", <<>>, "Err")]
    /\ UNCHANGED <<rt_algorithm, rt_engine, rt_issued, sm_store, raftvars, notrt>>

\* Runtime::propose, which hands the value to the engine
Runtime_propose(e, value) ==
    /\ rt_ops < MaxCalls
    /\ rt_ops' = rt_ops + 1
    /\ \/ /\ rt_algorithm[e] = "Raft"
          /\ RaftConsensus_propose(e, value)
          /\ rt_result' = [rt_result EXCEPT
                ![e] = [op |-> "propose", kind |-> rc_result'[e].kind, id |-> rc_result'[e].id]]
          /\ rt_issued' = [rt_issued EXCEPT
                ![e] = IF rc_result'[e].kind = "Ok" THEN @ \cup {rc_result'[e].id} ELSE @]
          /\ UNCHANGED <<rt_engine, steps, taskvars>>
       \/ /\ rt_algorithm[e] = "PBFT"
          /\ \E u \in Uuid :
               /\ rt_engine' = [rt_engine EXCEPT ![e] = PBFT_propose(@, value, u)]
               /\ rt_result' = [rt_result EXCEPT ![e] = RtOk("propose", PrefixedId("pbft", u))]
               /\ rt_issued' = [rt_issued EXCEPT ![e] = @ \cup {PrefixedId("pbft", u)}]
          /\ UNCHANGED raftvars
       \/ /\ rt_algorithm[e] = "Tendermint"
          /\ IF rt_engine[e].step = "Propose"
             THEN \E u \in Uuid :
                    /\ rt_result' = [rt_result EXCEPT
                           ![e] = RtOk("propose", PrefixedId("tendermint", u))]
                    /\ rt_issued' = [rt_issued EXCEPT
                           ![e] = @ \cup {PrefixedId("tendermint", u)}]
             ELSE /\ rt_result' = [rt_result EXCEPT
                           ![e] = RtErr("propose", <<>>, "NotInProposeStep")]
                  /\ UNCHANGED rt_issued
          /\ UNCHANGED <<rt_engine, raftvars>>
    /\ UNCHANGED <<rt_algorithm, rt_swarm, rt_calls, sm_store, notrt>>

\* Runtime::vote, which hands the vote to the engine: RaftConsensus::vote and
\* TendermintConsensus::vote (and RaftNode::vote) return Ok and touch nothing.
Runtime_vote(e, proposal_id, vote) ==
    /\ rt_ops < MaxCalls
    /\ rt_ops' = rt_ops + 1
    /\ rt_engine' = [rt_engine EXCEPT
            ![e] = IF rt_algorithm[e] = "PBFT" THEN PBFT_vote(@, proposal_id, vote) ELSE @]
    /\ rt_result' = [rt_result EXCEPT ![e] = RtOk("vote", proposal_id)]
    /\ UNCHANGED <<rt_algorithm, rt_swarm, rt_calls, rt_issued, sm_store, raftvars, notrt>>

\* Runtime::commit
Runtime_commit(e, value) ==
    /\ rt_ops < MaxCalls
    /\ rt_ops' = rt_ops + 1
    /\ \E u \in Uuid :
         sm_store' = [sm_store EXCEPT ![e] = StateManager_commit(@, value, u)]
    /\ rt_result' = [rt_result EXCEPT ![e] = RtOk("commit", <<>>)]
    /\ UNCHANGED <<rt_algorithm, rt_engine, rt_swarm, rt_calls, rt_issued, raftvars, notrt>>

NextRuntime ==
    \/ \E e \in Proposer : Runtime_start(e)
    \/ \E e \in Proposer : \E v \in ClientValues : Runtime_propose(e, v)
    \/ \E e \in Proposer : \E id \in AnyProposalId : \E v \in Vote : Runtime_vote(e, id, v)
    \/ \E e \in Proposer : \E v \in ClientValues : Runtime_commit(e, v)

\* The Runtime under any algorithm.
InitRt ==
    /\ InitNodes /\ InitReplicas(DistinctIds) /\ InitStores([d \in Store |-> Strong])
    /\ \E a \in Algorithm :
         InitRuntime([e \in Engine |-> IF e \in Proposer THEN a ELSE "Raft"])
    /\ InitNetwork /\ InitP2P

SpecRuntime == InitRt /\ [][NextRuntime]_vars

\* ------------------------------------------------- the network, acting

\* The calls followed on the layers of one behaviour.
MaxSends == 2

\* The nodes whose callers send.
Sender == {"node1", "node2"}

\* What the network layers leave alone.
notnet == <<raftvars, objvars, vcvars, storevars, rtvars, p2pvars>>

\* The peers a publication reaches: the subscribers of the topic, the
\* publisher apart.
Subscribers(n) == Engine \ {n}

\* broadcast, send_to, gossip: the command is queued on message_tx.
Queue(n, c) ==
    /\ net_ops < MaxSends
    /\ net_ops' = net_ops + 1
    /\ net_cmds' = [net_cmds EXCEPT ![n] = Append(@, c)]
    /\ UNCHANGED <<net_flight, net_incoming, net_pubs, net_log, notnet>>

\* P2PNetworkLayer::broadcast
net_broadcast(n, msg) == Queue(n, Broadcast(msg))

\* P2PNetworkLayer::send_to
net_send_to(n, node, msg) == Queue(n, SendTo(node, msg))

\* P2PNetworkLayer::gossip
net_gossip(n, data) == Queue(n, GossipCmd(data))

\* P2PNetworkLayer::handle_command: the event loop takes the next command
\* and publishes it on the topic; a publication that fails is logged and
\* dropped.
handle_command(n) ==
    /\ net_cmds[n] # <<>>
    /\ net_cmds' = [net_cmds EXCEPT ![n] = Tail(@)]
    /\ \E published \in BOOLEAN :
         LET c == Head(net_cmds[n])
             id == Len(net_pubs) + 1
         IN  /\ net_pubs' = Append(net_pubs,
                                   [from |-> n, command |-> c, ok |-> published])
             /\ net_flight' =
                    IF published
                    THEN net_flight \cup
                           { [pub |-> id, to |-> m, data |-> Published(c)] :
                               m \in Subscribers(n) }
                    ELSE net_flight
    /\ UNCHANGED <<net_incoming, net_log, net_ops, notnet>>

\* P2PNetworkLayer::handle_gossipsub_event: a message of the topic reaches
\* a subscriber, which queues it on incoming_tx if it reads as a Message.
handle_gossipsub_event(n) ==
    \E f \in net_flight :
      /\ f.to = n
      /\ net_flight' = net_flight \ {f}
      /\ LET r == Message_from_slice(f.data)
         IN  /\ net_incoming' =
                    IF r.ok THEN [net_incoming EXCEPT ![n] = Append(@, r.msg)]
                    ELSE net_incoming
             /\ net_log' = net_log \cup
                    {[pub |-> f.pub, to |-> n, queued |-> r.ok]}
      /\ UNCHANGED <<net_cmds, net_pubs, net_ops, notnet>>

NextNetwork ==
    \/ \E n \in Sender, msg \in NetMessage : net_broadcast(n, msg)
    \/ \E n \in Sender, node \in Engine, msg \in NetMessage : net_send_to(n, node, msg)
    \/ \E n \in Sender, data \in GossipData : net_gossip(n, data)
    \/ \E n \in Engine : handle_command(n)
    \/ \E n \in Engine : handle_gossipsub_event(n)

SpecNetwork == Init /\ [][NextNetwork]_vars

\* ---------------------------------------------- network.rs, acting

\* What the P2PNetwork leaves alone.
notp2p == <<raftvars, objvars, vcvars, storevars, rtvars, netvars>>

\* broadcast, send_to, gossip: the caller awaits self.tx.send(command).
p2p_send(c, kind) ==
    /\ p2p_pc[c] = NoSend
    /\ p2p_pc' = [p2p_pc EXCEPT ![c] = kind]
    /\ UNCHANGED <<p2p_len, notp2p>>

\* Sender::send completes once the channel has room: the command is
\* queued and the call returns Ok(()).  rx stays in the P2PNetwork, so the
\* channel is never closed, and no code reads rx: start spawns a task whose
\* body is empty.
p2p_return(c) ==
    /\ p2p_pc[c] # NoSend
    /\ p2p_len < ChannelCapacity
    /\ p2p_len' = p2p_len + 1
    /\ p2p_pc' = [p2p_pc EXCEPT ![c] = NoSend]
    /\ UNCHANGED notp2p

NextP2P ==
    \/ \E c \in Caller : \E kind \in CommandKind : p2p_send(c, kind)
    \/ \E c \in Caller : p2p_return(c)

\* A send whose channel has room completes.
SpecP2P ==
    Init /\ [][NextP2P]_vars /\ \A c \in Caller : WF_vars(p2p_return(c))

\* ---------------------------------------------------------------- claims

SameEntry(e, f) == e.term = f.term /\ e.value = f.value

\* C1  Election Safety: for every term T at most one node is ever in role
\* Leader while its currentTerm equals T.
ElectionSafety ==
    \A p \in leaders : \A q \in leaders : p[1] = q[1] => p[2] = q[2]

\* C2  Log Matching: for every pair of nodes A, B and every index i present
\* in both logs, if the entries at i have the same term then the two logs
\* agree (terms and payloads) at every position up to i.
LogMatching ==
    \A a \in Node : \A b \in Node :
        \A i \in 1..Min(Len(log[a]), Len(log[b])) :
            log[a][i].term = log[b][i].term =>
                \A j \in 1..i : SameEntry(log[a][j], log[b][j])

\* C3  State Machine Safety: for every pair of nodes A, B and every index
\* i <= min(A.commitIndex, B.commitIndex), both logs hold an entry at i and
\* the two entries carry the same term and payload.
StateMachineSafety ==
    \A a \in Node : \A b \in Node :
        \A i \in 1..Min(commit_index[a], commit_index[b]) :
            /\ i <= Len(log[a])
            /\ i <= Len(log[b])
            /\ SameEntry(log[a][i], log[b][i])

\* C4  Commit monotonicity: on every node commitIndex and lastApplied never
\* decrease.
CommitMonotonic ==
    [][\A n \in Node : /\ commit_index'[n] >= commit_index[n]
                        /\ last_applied'[n] >= last_applied[n]]_vars

\* C5  Committed entries are never removed or replaced: every node's log is
\* at least as long as its commitIndex, and no step removes or changes an
\* entry at an index up to commitIndex.
CommittedEntriesKept ==
    /\ [](\A n \in Node : Len(log[n]) >= commit_index[n])
    /\ [][\A n \in Node : \A i \in 1..Min(commit_index[n], Len(log[n])) :
            i <= Len(log'[n]) /\ log'[n][i] = log[n][i]]_vars

\* C6  Leader Append-Only: a step that leaves a node Leader of the same term
\* keeps every entry of its log in place: the log only grows by appends.
LeaderAppendOnly ==
    [][\A n \in Node :
          (state[n] = "Leader" /\ state'[n] = "Leader"
             /\ current_term'[n] = current_term[n])
          => IsPrefix(log[n], log'[n])]_vars

\* C7  Term monotonicity: on every node currentTerm never decreases, however
\* the election timer task and the message handler task interleave.
TermMonotonic ==
    [][\A n \in Node : current_term'[n] >= current_term[n]]_vars

\* C8  Handling a message whose term is lower than the node's currentTerm
\* changes nothing: currentTerm, role, votedFor, log, commitIndex and the
\* last heartbeat stay as they are, for RequestVote and AppendEntries alike.
StaleTermNoChange ==
    [][\A n \in Node : \A m \in Messages(n) :
          (m.term < current_term[n] /\ handle_message(n, m))
          => /\ current_term'[n] = current_term[n]
             /\ state'[n] = state[n]
             /\ voted_for'[n] = voted_for[n]
             /\ log'[n] = log[n]
             /\ commit_index'[n] = commit_index[n]
             /\ last_heartbeat'[n] = last_heartbeat[n]]_vars

\* C9  A node enters the Leader role only while it holds the votes of a strict
\* majority of its peer set plus itself, its own vote counted: its vote of
\* the term is its own, and the votes it counts are more than half of the
\* cluster it knows.
LeaderByMajority ==
    [][\A n \in Node :
          (state[n] # "Leader" /\ state'[n] = "Leader")
          => /\ voted_for'[n] = n
             /\ 2 * VoteCount > Cardinality(peers'[n]) + 1]_vars

\* C10  propose on a node whose role is not Leader returns the NotLeader
\* error and leaves the node's log, currentTerm, commitIndex and role
\* unchanged; so does propose on a RaftConsensus engine whose role is not
\* Leader.
ProposeNotLeader ==
    [][/\ \A n \in Node : \A v \in ClientValues :
            (state[n] # "Leader" /\ propose(n, v))
            => /\ propose_result'[n] = NotLeader
               /\ log'[n] = log[n]
               /\ current_term'[n] = current_term[n]
               /\ commit_index'[n] = commit_index[n]
               /\ state'[n] = state[n]
       /\ \A e \in Engine : \A v \in ClientValues :
            (raft_state[e].role # "Leader" /\ RaftConsensus_propose(e, v))
            => /\ rc_result'[e] = NotLeader
               /\ raft_state'[e] = raft_state[e]]_vars

\* A Candidate (a node with a peer, after its election timeout) was refused,
\* and so was a caller of the RaftConsensus engine.
ProposeNotLeaderWitness ==
    /\ \E n \in Node : state[n] = "Candidate" /\ propose_result[n] = NotLeader
    /\ \E e \in Engine : rc_result[e] = NotLeader

\* The source names no bound on outstanding proposals; any bound below the
\* longest log the model follows shows whether one is enforced.
OutstandingBound == MaxLog - 1

\* The result of a propose call refused for backpressure.
Backpressure == [kind |-> "Backpressure", id |-> <<>>]

\* The proposals of a log that are appended and not yet committed: the
\* entries above commit_index that carry a payload a caller proposed.
Outstanding(n) ==
    Cardinality({ i \in 1..Len(log[n]) :
                    i > commit_index[n] /\ log[n][i].value \in ClientValues })

\* C11  propose fails with Backpressure once the outstanding (appended, not
\* yet committed) proposals on the leader have reached the bound, and the
\* uncommitted entries of a leader's log never exceed the bound.
ProposeBackpressure ==
    /\ [](\A n \in Node :
            state[n] = "Leader" => Outstanding(n) <= OutstandingBound)
    /\ [][\A n \in Node : \A v \in ClientValues :
            (/\ state[n] = "Leader"
             /\ Outstanding(n) >= OutstandingBound
             /\ propose(n, v))
            => /\ propose_result'[n] = Backpressure
               /\ log'[n] = log[n]]_vars

\* C12  ProposalIds are unique per issuer: a successful propose on a node
\* returns a ProposalId that no earlier propose on that node has returned.
ProposalIdsUnique ==
    [][\A n \in Node : \A v \in ClientValues :
          (propose(n, v) /\ propose_result'[n].kind = "Ok")
          => propose_result'[n].id \notin issued[n]]_vars

\* C13  Every entry that becomes committed on a node is eventually applied:
\* last_applied reaches every index commit_index has reached, and
\* last_applied moves one index at a time.
CommittedEventuallyApplied ==
    /\ \A n \in Node : \A i \in 1..MaxLog :
          (commit_index[n] >= i) ~> (last_applied[n] >= i)
    /\ [][\A n \in Node :
            last_applied'[n] \in {last_applied[n], last_applied[n] + 1}]_vars

\* The engines in role Leader.
EngineLeaders == { e \in Engine : raft_state[e].role = "Leader" }

\* C14  In a fault-free three-node cluster some node eventually becomes
\* Leader and exactly one Leader exists (so that a propose issued after the
\* election period returns a ProposalId).
ClusterElectsLeader == <>(Cardinality(EngineLeaders) = 1)

\* The count maps of a PNCounter.
PNCounts(x) == <<x.positive.counts, x.negative.counts>>

\* The GCounters the PNCounters of the replicas are made of.
GCounterParts ==
    { pncounter[r].positive : r \in Replica } \cup
    { pncounter[r].negative : r \in Replica }

\* The PNCounters the replicas hold.
PNCounters == { pncounter[r] : r \in Replica }

\* The three laws on the count maps of the values the replicas hold.
MergeLawsHold ==
    /\ \A x \in GCounterParts : \A y \in GCounterParts :
          \A xy \in {GCounter_merge(x, y)} :
              /\ xy.counts = GCounter_merge(y, x).counts
              /\ GCounter_merge(x, x) = x
              /\ \A z \in GCounterParts : \A yz \in {GCounter_merge(y, z)} :
                    GCounter_merge(xy, z).counts = GCounter_merge(x, yz).counts
    /\ \A px \in PNCounters : \A py \in PNCounters :
          \A pxy \in {PNCounter_merge(px, py)} :
              /\ PNCounts(pxy) = PNCounts(PNCounter_merge(py, px))
              /\ PNCounter_merge(px, px) = px
              /\ \A pz \in PNCounters : \A pyz \in {PNCounter_merge(py, pz)} :
                    PNCounts(PNCounter_merge(pxy, pz)) = PNCounts(PNCounter_merge(px, pyz))

\* C15  GCounter.merge and PNCounter.merge are commutative, associative and
\* idempotent on the count maps, for the values the replicas build by
\* increments, decrements and merges; and merge leaves its argument as it was.
CounterMergeLaws ==
    /\ []MergeLawsHold
    /\ [][\A r \in Replica : \A s \in Replica \ {r} :
            pncounter_merge(r, s) => pncounter'[s] = pncounter[s]]_vars

\* A replica has merged another: it holds two positive counts and a negative
\* one, and a third replica still differs from it.
CounterMergeLawsWitness ==
    \E r \in Replica : \E s \in Replica :
        /\ Cardinality(DOMAIN pncounter[r].positive.counts) >= 2
        /\ DOMAIN pncounter[r].negative.counts # {}
        /\ PNCounts(pncounter[s]) # PNCounts(pncounter[r])

\* The GCounters were built with node ids that differ.
GCounterIdsDistinct ==
    \A r \in Replica : \A s \in Replica \ {r} :
        gcounter[r].node_id # gcounter[s].node_id

\* Every replica has merged the state every other replica now has: merging
\* it again changes nothing.
GCounterQuiescent ==
    \A r \in Replica : \A s \in Replica :
        GCounter_merge(gcounter[r], gcounter[s]) = gcounter[r]

\* C16  G-Counter convergence: for replicas with distinct node ids, once
\* every replica has merged the final state of every other replica, value()
\* on every replica is the number of increments performed on all replicas.
GCounterConvergence ==
    (GCounterIdsDistinct /\ GCounterQuiescent)
    => \A r \in Replica : GCounter_value(gcounter[r]) = SumValues(g_incs)

\* The three-replica scenario: 3, 5 and 1 increments, and the replicas have
\* merged each other until nothing changes; every value() is 9.
GCounterConvergenceWitness ==
    /\ GCounterIdsDistinct
    /\ GCounterQuiescent
    /\ g_incs = [r \in Replica |->
                    CASE r = "r1" -> 3 [] r = "r2" -> 5 [] OTHER -> 1]
    /\ \A r \in Replica : GCounter_value(gcounter[r]) = 9

\* C17  LWWMap.merge is commutative, associative and idempotent: for the
\* maps x, y, z the replicas build by set and merge, merge(x, y) and
\* merge(y, x) hold the same value and the same tag for every key, also
\* when the two entries of a key carry identical tags.
LWWMergeLaws ==
    \A a \in Replica : \A b \in Replica :
        LET lx == lwwmap[a]
            ly == lwwmap[b]
        IN  /\ LWWMap_merge(lx, ly).entries = LWWMap_merge(ly, lx).entries
            /\ LWWMap_merge(lx, lx) = lx
            /\ \A c \in Replica :
                  LWWMap_merge(LWWMap_merge(lx, ly), lwwmap[c]).entries
                      = LWWMap_merge(lx, LWWMap_merge(ly, lwwmap[c])).entries

\* C18  ORSet.merge is commutative, associative and idempotent on the map
\* from elements to tag sets, for the sets x, y, z the replicas build by
\* add, remove and merge.
ORSetMergeLaws ==
    \A a \in Replica : \A b \in Replica :
        LET sx == orset[a]
            sy == orset[b]
        IN  /\ ORSet_merge(sx, sy).elements = ORSet_merge(sy, sx).elements
            /\ ORSet_merge(sx, sx) = sx
            /\ \A c \in Replica :
                  ORSet_merge(ORSet_merge(sx, sy), orset[c]).elements
                      = ORSet_merge(sx, ORSet_merge(sy, orset[c])).elements

\* Two replicas hold an element under different tags, one of them holds an
\* element the other lacks, and their merge differs from both.
ORSetMergeLawsWitness ==
    \E a \in Replica : \E b \in Replica :
        /\ \E e \in DOMAIN orset[a].elements \cap DOMAIN orset[b].elements :
              /\ orset[a].elements[e] \ orset[b].elements[e] # {}
              /\ orset[b].elements[e] \ orset[a].elements[e] # {}
        /\ DOMAIN orset[a].elements # DOMAIN orset[b].elements
        /\ ORSet_merge(orset[a], orset[b]).elements # orset[a].elements
        /\ ORSet_merge(orset[a], orset[b]).elements # orset[b].elements

\* The Vec v lists every member of the set s once and nothing else.
ListsOnce(v, s) ==
    /\ Len(v) = Cardinality(s)
    /\ \A e \in s : \E i \in 1..Len(v) : v[i] = e
    /\ \A i \in 1..Len(v) : v[i] \in s

\* C19  After a.merge(b), a contains exactly the elements a or b contained
\* before, the tag set of each element is the union of both tag sets,
\* elements() lists each contained element exactly once, and no element maps
\* to an empty tag set.
ORSetMergeUnion ==
    [][\A a \in Replica : \A b \in Replica \ {a} :
          orset_merge(a, b) =>
            /\ \A e \in OrElem :
                  /\ ORSet_contains(orset'[a], e)
                        <=> (ORSet_contains(orset[a], e) \/ ORSet_contains(orset[b], e))
                  /\ TagsOf(orset'[a], e) = TagsOf(orset[a], e) \cup TagsOf(orset[b], e)
            /\ ListsOnce(ORSet_elements(orset'[a]),
                         {e \in OrElem : ORSet_contains(orset'[a], e)})
            /\ \A e \in DOMAIN orset'[a].elements : orset'[a].elements[e] # {}]_vars

\* A replica holds two elements, one of them under tags minted by two
\* nodes, which only a merge brings together.
ORSetMergeUnionWitness ==
    \E a \in Replica :
        /\ Cardinality(DOMAIN orset[a].elements) = 2
        /\ \E e \in DOMAIN orset[a].elements :
              \E t1 \in orset[a].elements[e] : \E t2 \in orset[a].elements[e] :
                  t1.node_id # t2.node_id

\* C20  Add wins over a concurrent remove: when r1 has added "x", r2 has
\* merged r1 and removed "x" while r1 added "x" again, and each has merged
\* the other, "x" is contained in both replicas.
ORSetAddWins ==
    or_scn \in AddWinsRuns =>
        ORSet_contains(orset["r1"], "x") /\ ORSet_contains(orset["r2"], "x")

\* The scenario has run: both replicas hold "x" under the tag of r1's
\* second add.
ORSetAddWinsWitness ==
    /\ or_scn \in AddWinsRuns
    /\ UniqueTag("node1", 1) \in TagsOf(orset["r1"], "x") \cap TagsOf(orset["r2"], "x")

\* The clocks were built with node ids that differ.
VClockIdsDistinct ==
    \A r \in Replica : \A s \in Replica \ {r} :
        vclock[r].node_id # vclock[s].node_id

\* The clock r has counted an event of its own.
HasIncremented(r) == GetOrZero(vclock[r].clocks, vclock[r].node_id) >= 1

\* C21  Vector clock dominance: when clock b performs update(a), afterwards
\* a.compare(b) = Before and b.compare(a) = After; and two clocks of distinct
\* nodes that have each incremented at least once and whose states never
\* reached each other compare as Concurrent in both directions.
VClockDominance ==
    /\ [][\A b \in Replica : \A a \in Replica \ {b} :
            vclock_update(b, a) =>
                /\ VectorClock_compare(vclock'[a], vclock'[b]) = "Before"
                /\ VectorClock_compare(vclock'[b], vclock'[a]) = "After"]_vars
    /\ [](VClockIdsDistinct =>
            \A a \in Replica : \A b \in Replica \ {a} :
                (/\ HasIncremented(a) /\ HasIncremented(b)
                 /\ a \notin vc_knows[b] /\ b \notin vc_knows[a])
                    => /\ VectorClock_compare(vclock[a], vclock[b]) = "Concurrent"
                       /\ VectorClock_compare(vclock[b], vclock[a]) = "Concurrent")

\* r2 has received the event of r1, which had incremented, and compares
\* After it, while r3 has incremented on its own and is Concurrent with both.
VClockDominanceWitness ==
    /\ VClockIdsDistinct
    /\ vc_knows["r2"] = {"r1", "r2"}
    /\ HasIncremented("r1") /\ HasIncremented("r3")
    /\ vc_knows["r3"] = {"r3"} /\ vc_knows["r1"] = {"r1"}
    /\ VectorClock_compare(vclock["r1"], vclock["r2"]) = "Before"
    /\ VectorClock_compare(vclock["r2"], vclock["r1"]) = "After"
    /\ VectorClock_compare(vclock["r3"], vclock["r2"]) = "Concurrent"
    /\ VectorClock_compare(vclock["r1"], vclock["r3"]) = "Concurrent"

\* An engine holds an entry: some proposal was accepted, without which no
\* write can have been committed through the engine.
EngineHoldsEntry == \E e \in Engine : raft_state[e].log # <<>>

\* C22  With Strong consistency, set makes the value visible to get only
\* after the write has been committed through the consensus engine; a
\* Strong write whose proposal has not been committed never changes the
\* local state.
StrongWriteCommitted ==
    \A d \in Store : \A k \in StoreKey :
        (/\ dstate[d].consistency_level = Strong
         /\ DistributedState_get(dstate[d], k) # <<>>) => EngineHoldsEntry

\* The replicas of the cluster a write on d is acknowledged by.
ReplicasOf(d) == Store \ {d}

\* C23  With Quorum(threshold) consistency, set returns Ok only after at
\* least ceil(|replicas| * threshold) replica acknowledgements have been
\* received; a write never completes with fewer acknowledgements than
\* required.
QuorumAcksReceived ==
    \A d \in Store :
        (/\ dstate[d].consistency_level.kind = "Quorum"
         /\ ds_result[d].kind = "Ok")
            => ds_result[d].acks >=
                 CeilMul(Cardinality(ReplicasOf(d)), dstate[d].consistency_level.threshold)

\* With Causal consistency no store ever holds a value: set returns Ok and
\* writes nothing, and nothing is received.
CausalNothingVisible ==
    \A d \in Store :
        dstate[d].consistency_level = Causal => dstate[d].local_state = EmptyMap

\* The values the store of e holds.
Stored(e) == { sm_store[e][k] : k \in DOMAIN sm_store[e] }

\* C25  Idempotent application: applying the same committed entry to the
\* state manager twice leaves the store in the same state as applying it
\* once.
CommitIdempotent ==
    [][\A e \in Engine : \A v \in ClientValues :
          (Runtime_commit(e, v) /\ v \in Stored(e)) => sm_store'[e] = sm_store[e]]_vars

\* C26  Runtime.start starts the transport before the engine: the engine's
\* start is invoked only after the network layer's start has returned Ok, and
\* if the network start fails the engine is never started and start returns
\* the error.
StartOrder ==
    \A e \in Engine :
        /\ \A i \in 1..Len(rt_calls[e]) :
              rt_calls[e][i] = "consensus.start" =>
                  i > 1 /\ rt_calls[e][i - 1] = "network.start:Ok"
        /\ rt_result[e].op = "start" =>
              /\ rt_calls[e] # <<>>
              /\ rt_result[e].kind = "Ok"
                    <=> rt_calls[e][Len(rt_calls[e])] = "consensus.start"
              /\ rt_result[e].kind = "Err"
                    <=> rt_calls[e][Len(rt_calls[e])] = "network.start:Err"

\* The Runtime was started twice: the network start failed the first time
\* and the engine was started the second time only.
StartOrderWitness ==
    \E e \in Engine :
        /\ rt_calls[e] = <<"network.start:Err", "network.start:Ok", "consensus.start">>
        /\ rt_result[e] = RtOk("start", <<>>)
        /\ rt_swarm[e] = "Some"

\* C27  vote for a ProposalId that propose never returned fails with
\* UnknownProposal and records nothing; for a known proposal it returns Ok.
VoteUnknownProposal ==
    \A e \in Engine :
        rt_result[e].op = "vote" =>
            IF rt_result[e].id \in rt_issued[e]
            THEN rt_result[e].kind = "Ok"
            ELSE rt_result[e].kind = "UnknownProposal"

\* The publications of send_to commands that reached the topic.
SentTo == { i \in 1..Len(net_pubs) :
              net_pubs[i].ok /\ net_pubs[i].command.cmd = "SendTo" }

\* C28: a message sent with send_to(N, m) is delivered to the inbound queue
\* of node N, and to the inbound queue of no other node: whenever a node
\* has received the publication of send_to(N, m), it has queued m on its
\* inbound queue if it is N, and has queued nothing if it is another node.
SendToUnicast ==
    \A i \in SentTo : \A l \in net_log :
        l.pub = i => (l.queued <=> l.to = net_pubs[i].command.target)

\* The half of C28 that the layer keeps: no node other than N queues a
\* message sent with send_to(N, m).
SendToNotToOthers ==
    \A i \in SentTo : \A l \in net_log :
        (l.pub = i /\ l.to # net_pubs[i].command.target) => ~l.queued

\* A round trip through the topic: a broadcast Message is queued as sent.
BroadcastRoundTrip ==
    \A m \in NetMessage : Message_from_slice(Message_to_vec(m)) = ParseOk(m)

\* C29: in any single term a node casts at most one vote: while its
\* current_term stays at T, the node writes at most one candidate to
\* voted_for, whether the election timer task writes the node itself or the
\* message handler task writes the candidate of a RequestVote, under every
\* interleaving of the two tasks.
OneVotePerTerm ==
    \A n \in Node : Cardinality(votes_cast[n]) <= 1

\* The step of propose that pushes the entry on the log of node n.
Appends(n) == ppc[n] = "append_log" /\ ppc'[n] = "idle"

\* C30: every log entry created by propose with term T is appended by a node
\* that is Leader of term T at the moment of the append: when propose pushes
\* its entry, the node's role is Leader and its current_term is the term of
\* the entry, whatever the message handler did since propose read the role.
ProposeAppendsAsLeader ==
    [][\A n \in Node :
         Appends(n) => /\ state[n] = "Leader"
                       /\ current_term[n] = log'[n][Len(log'[n])].term]_vars

\* The receiver's term and vote when handle_request_vote begins: handle_message
\* has raised the term, and cleared the vote, for a message of a higher term.
TermAtVote(n, m) == IF m.term > current_term[n] THEN m.term ELSE current_term[n]
VoteAtVote(n, m) == IF m.term > current_term[n] THEN None ELSE voted_for[n]

\* The rule of the vote: the message's term is at least the receiver's, the
\* receiver's vote is free or already the candidate's, and the candidate's
\* log is at least as up-to-date as the receiver's.
VoteRule(n, m) ==
    /\ m.term >= TermAtVote(n, m)
    /\ VoteAtVote(n, m) \in {None, m.candidate_id}
    /\ LET our_term == IF log[n] = <<>> THEN 0 ELSE log[n][Len(log[n])].term
       IN  \/ m.last_log_term > our_term
           \/ m.last_log_term = our_term /\ m.last_log_index >= Len(log[n])

\* C31  handle_request_vote grants the vote iff the message's term is at
\* least currentTerm, votedFor is empty or already the candidate, and the
\* candidate's log is at least as up-to-date as the receiver's; on a grant
\* votedFor becomes the candidate and the election timer is reset, otherwise
\* votedFor and the timer stay as they were.
VoteGrantRule ==
    [][\A n \in Node : \A m \in Messages(n) :
          (m.type = "RequestVote" /\ handle_message(n, m))
          => IF VoteRule(n, m)
             THEN /\ voted_for'[n] = m.candidate_id
                  /\ last_heartbeat'[n] = 0
             ELSE /\ voted_for'[n] = VoteAtVote(n, m)
                  /\ last_heartbeat'[n] = last_heartbeat[n]]_vars

\* A node whose log holds an entry has granted its vote to another node, its
\* timer reset.
VoteGrantWitness ==
    \E n \in Node :
        /\ voted_for[n] \in Node \ {n}
        /\ log[n] # <<>>
        /\ last_heartbeat[n] = 0

\* C32  After a node handles a message of any type whose term is above its
\* currentTerm, its currentTerm is the message's term and its role is
\* Follower, and the downgrade is complete before the logic of the message
\* runs: a RequestVote of a higher term from a candidate whose log is up to
\* date is granted whatever the node had voted in its old term.
HigherTermDowngrade ==
    [][\A n \in Node : \A m \in Messages(n) :
          (m.term > current_term[n] /\ handle_message(n, m))
          => /\ current_term'[n] = m.term
             /\ state'[n] = "Follower"
             /\ (m.type = "RequestVote" /\ VoteRule(n, m))
                   => voted_for'[n] = m.candidate_id
             /\ m.type # "RequestVote" => voted_for'[n] = None]_vars

\* A node that led term 1 is a Follower of term 2.
HigherTermDowngradeWitness ==
    \E n \in Node :
        /\ <<1, n>> \in leaders
        /\ state[n] = "Follower"
        /\ current_term[n] = 2

\* Node n handles a message for which Cond(m) holds.
Handles(n, Cond(_)) == \E m \in Messages(n) : Cond(m) /\ handle_message(n, m)

\* One round of the election timer that times out: the node becomes
\* Candidate, and Leader if its votes are more than half of its cluster.
TimesOut(n) ==
    /\ last_heartbeat[n] >= ElectionTimeout
    /\ current_term'[n] = current_term[n] + 1

HoldsMajority(n) == 2 * VoteCount > Cardinality(peers[n]) + 1

\* C33  A node's role changes only along the specified transitions: every
\* node starts as Follower; Follower to Candidate on election timeout;
\* Candidate to Leader on a majority of votes; Candidate to Follower on an
\* AppendEntries with term >= currentTerm or on any message of a higher
\* term; Leader to Follower only on a message whose term is strictly greater
\* than currentTerm.  A Leader is not deposed by a message whose term is at
\* most its currentTerm.
RoleTransitions ==
    /\ \A n \in Node : state[n] = "Follower"
    /\ [][\A n \in Node :
            state'[n] # state[n] =>
              \/ /\ state[n] # "Leader"
                 /\ TimesOut(n)
                 /\ \/ state'[n] = "Candidate"
                    \/ state'[n] = "Leader" /\ HoldsMajority(n)
              \/ /\ state[n] = "Candidate"
                 /\ state'[n] = "Follower"
                 /\ LET Deposes(m) ==
                          \/ m.type = "AppendEntries" /\ m.term >= current_term[n]
                          \/ m.term > current_term[n]
                    IN  Handles(n, Deposes)
              \/ /\ state[n] = "Leader"
                 /\ state'[n] = "Follower"
                 /\ LET Higher(m) == m.term > current_term[n]
                    IN  Handles(n, Higher)]_vars

\* The follower accepts the AppendEntries m: its term is not behind, and the
\* follower holds the entry before the ones sent, with the term sent.
Accepts(n, m) ==
    /\ m.type = "AppendEntries"
    /\ m.term >= current_term[n]
    /\ \/ m.prev_log_index = 0
       \/ /\ m.prev_log_index <= Len(log[n])
          /\ log[n][m.prev_log_index].term = m.prev_log_term

\* C34  When a follower accepts AppendEntries(prevLogIndex = p, entries = E),
\* its resulting log keeps the entries 1..p as they were and holds E[k] at
\* index p + k for every k in 1..|E|, so that the index field of every
\* stored entry is its position in the log.
AppendEntriesPlacement ==
    [][\A n \in Node : \A m \in Messages(n) :
          (Accepts(n, m) /\ handle_message(n, m))
          => LET p == m.prev_log_index
             IN  /\ Len(log'[n]) >= p + Len(m.entries)
                 /\ SubSeq(log'[n], 1, p) = SubSeq(log[n], 1, p)
                 /\ \A k \in 1..Len(m.entries) : log'[n][p + k] = m.entries[k]
                 /\ \A i \in 1..Len(log'[n]) : log'[n][i].index = i]_vars

\* The entries of m that conflict with the log of n: the follower holds an
\* entry of another term at their index.
Conflicts(n, m) ==
    { j \in 1..Len(m.entries) :
        /\ m.prev_log_index + j <= Len(log[n])
        /\ log[n][m.prev_log_index + j].term # m.entries[j].term }

\* The entries of the log of n that the step removes or replaces.
Removed(n) ==
    { i \in 1..Len(log[n]) : i > Len(log'[n]) \/ log'[n][i] # log[n][i] }

\* C35  An accepted AppendEntries removes only entries that conflict with
\* the entries it carries (an entry goes only if it, or an entry before it,
\* conflicts with an entry sent); a heartbeat, which carries no entries,
\* leaves the receiver's log as it is, whatever the log's length.
AppendEntriesRemovesConflicts ==
    [][\A n \in Node : \A m \in Messages(n) :
          (Accepts(n, m) /\ handle_message(n, m))
          => /\ \A i \in Removed(n) :
                   \E j \in Conflicts(n, m) : m.prev_log_index + j <= i
             /\ m.entries = <<>> => log'[n] = log[n]]_vars


\* The AppendEntries whose prev_log_index > 0 names no entry of the
\* receiver's log, or an entry of another term than prev_log_term.
Mismatch(n, m) ==
    /\ m.type = "AppendEntries"
    /\ m.prev_log_index > 0
    /\ \/ m.prev_log_index > Len(log[n])
       \/ log[n][m.prev_log_index].term # m.prev_log_term

\* C36: an AppendEntries with prev_log_index > 0 whose prev_log_index
\* exceeds the receiver's log length, or whose prev_log_term differs from
\* the term of the receiver's entry at prev_log_index, is rejected: the
\* receiver's log and commit index are unchanged.
AppendEntriesRejected ==
    [][\A n \in Node : \A m \in Messages(n) :
          (Mismatch(n, m) /\ handle_message(n, m))
          => /\ log'[n] = log[n]
             /\ commit_index'[n] = commit_index[n]]_vars

\* A node holding entries has rejected an AppendEntries.
AppendEntriesRejectedWitness ==
    \E n \in Node : ae_refused[n] /\ log[n] # <<>>


\* The nodes a leader l knows to store its log up to index N: itself and
\* the peers whose match_index has reached N.
Matched(l, N) ==
    {l} \cup {p \in DOMAIN match_index[l] : match_index[l][p] >= N}

\* The leaders that may commit index N: those holding an entry of their
\* current term at N, matched by a strict majority of the cluster.
Committers(N) ==
    { l \in Node :
        /\ state[l] = "Leader"
        /\ Len(log[l]) >= N
        /\ log[l][N].term = current_term[l]
        /\ 2 * Cardinality(Matched(l, N)) > Cardinality(Node) }

\* C37: the commit index of a node advances to N only if the entry at N
\* is stored on a strict majority of the cluster (match_index >= N for a
\* majority, counting the leader) and its term is the committing leader's
\* current term, or if N lies below an index so committed.
CommitNeedsMajority ==
    [][\A n \in Node :
          commit_index'[n] > commit_index[n]
          => \E N \in commit_index'[n]..MaxLog : Committers(N) # {}]_vars

\* What C37 asks of a receiver whatever the sender did: the entry a node
\* commits at N is the entry the leader's log holds at N.  The log write of
\* handle_append_entries breaks it as well.
CommitsLeaderEntry ==
    [][\A n \in Node :
          commit_index'[n] > commit_index[n]
          => log'[n][commit_index'[n]] = leader_log[commit_index'[n]]]_vars


\* C38: an OR-set removal persists across merges: when r2 has merged r1,
\* which had added "x", and removed "x", and no replica has added "x"
\* since, the replica that merges the other does not contain "x".
ORSetRemovePersists ==
    \A run \in RemoveRuns :
        or_scn = run => ~ORSet_contains(orset[run[Len(run)][2]], "x")


\* C39: read-your-writes on DistributedState: under every consistency
\* level, once set(key, v) has returned Ok on a store, get(key) on that
\* store returns v; only a set changes a store, so the value stays until
\* the next write.
ReadYourWrites ==
    [][\A d \in Store : \A k \in StoreKey : \A v \in StoreValue :
          (ds_set(d, k, v) /\ ds_result'[d].kind = "Ok")
          => DistributedState_get(dstate'[d], k) = <<v>>]_vars

\* Read-your-writes under the levels that write the local state.
ReadYourWritesButCausal ==
    [][\A d \in Store : \A k \in StoreKey : \A v \in StoreValue :
          (/\ ds_set(d, k, v)
           /\ ds_result'[d].kind = "Ok"
           /\ dstate[d].consistency_level # Causal)
          => DistributedState_get(dstate'[d], k) = <<v>>]_vars

\* C40: every NetworkLayer send operation (broadcast, send_to, gossip)
\* eventually returns, even when the outbound command queue is full or is
\* never drained: the caller never blocks forever.
SendsReturn ==
    \A c \in Caller : (p2p_pc[c] # NoSend) ~> (p2p_pc[c] = NoSend)

\* As long as the channel has room, a send is never stuck.
SendsReturnWithRoom ==
    \A c \in Caller :
        (p2p_pc[c] # NoSend /\ p2p_len < ChannelCapacity) => ENABLED p2p_return(c)

====
